---- MODULE Spec2Model ----
(***************************************************************************)
(* Model of the plant-care controller firmware                             *)
(* (src/arduino/sys_controller/sys_controller.ino): the EEPROM event log,  *)
(* the serial command processor, the auto controller, the clock, and the   *)
(* FreeRTOS tasks that run them.                                           *)
(*                                                                         *)
(* 32-bit unsigned values (currentTime, timestamps) are records            *)
(* [hi, lo] of two 16-bit halves, value = hi * 65536 + lo, because the     *)
(* model checker's integers are 32-bit signed.  All arithmetic on them is  *)
(* modulo 2^32, as on the target.                                          *)
(***************************************************************************)
EXTENDS Integers, Sequences, FiniteSets, TLC

(***************************************************************************)
(* Bounds of the model and program constants                               *)
(***************************************************************************)
\* EEPROM.length(): 1024 on the target; scaled down so that the log region
\* holds 3 records (4 clock bytes + 3 * 7 record bytes + 5 spare bytes, the
\* same 5 spare bytes as 1024 = 4 + 145 * 7 + 5).
EepromLength == 30
\* sizeof(Event) on AVR (no padding): 4 + 1 + 2.
RECORD_SIZE == 7
\* sizeof(uint32_t): the clock slot occupies bytes 0..3.
LOG_START_ADDRESS == 4
EEPROM_ADDR_CURRENT_TIME == 0
\* How many records the history variable `appended` follows after a clear.
MaxAppends == 5
\* How many clock ticks a run of the sequential specifications takes.
MaxTicks == 1
\* How many resets and power losses a run takes.
MaxResets == 1
\* Handler runs (commands, sampler iterations, controller ticks) per run.
MaxOps == 3
\* Sampler iterations, controller ticks and command lines per run of the tasks.
MaxSamples == 2
MaxCtrlTicks == 2
MaxCmds == 1
\* Bytes a run of the line reader receives: one more than fills the buffer
\* twice over would need, enough for an over-long line and what follows it.
MaxBytes == 14
\* #define CMD_BUFFER_SIZE 12
CMD_BUFFER_SIZE == 12

(***************************************************************************)
(* uint32_t                                                                *)
(***************************************************************************)
U32(h, l) == [hi |-> h, lo |-> l]
\* 0xFFFFFFFF: the timestamp of an empty slot.
SENTINEL == U32(65535, 65535)
ZERO32 == U32(0, 0)
\* volatile uint32_t currentTime = 1704067200 (0x65920080).
InitialTime == U32(26002, 128)

Inc32(x) == IF x.lo = 65535 THEN U32((x.hi + 1) % 65536, 0) ELSE U32(x.hi, x.lo + 1)
Geq32(a, b) == a.hi > b.hi \/ (a.hi = b.hi /\ a.lo >= b.lo)
Sub32(a, b) ==
    LET borrow == IF a.lo < b.lo THEN 1 ELSE 0
    IN  U32((a.hi - b.hi - borrow + 65536) % 65536, (a.lo - b.lo + 65536) % 65536)
\* x * 10 + d modulo 2^32.
Mul10Add32(x, d) ==
    LET l == x.lo * 10 + d
    IN  U32((x.hi * 10 + l \div 65536) % 65536, l % 65536)
\* Little-endian byte image of a uint32_t, and back.
Bytes32(x) == <<x.lo % 256, x.lo \div 256, x.hi % 256, x.hi \div 256>>
FromBytes32(b) == U32(b[3] + 256 * b[4], b[1] + 256 * b[2])

(***************************************************************************)
(* struct Event and the EEPROM                                             *)
(***************************************************************************)
Event(ts, type, value) == [timestamp |-> ts, eventType |-> type, value |-> value]
\* The 7 bytes EEPROM.put writes for an Event: timestamp, eventType, value.
EventBytes(e) == Bytes32(e.timestamp) \o <<e.eventType, e.value % 256, e.value \div 256>>

\* EEPROM.length() of the device the program runs on.  It never changes; a
\* run starts with the length of the store it is about.
VARIABLES storeLength

\* The EEPROM address register holds only the bits of a valid address: an
\* access past the end wraps to the start of the store.
EAddr(a) == a % storeLength
\* EEPROM.get(addr, uint32_t) and EEPROM.get(addr, Event)
Get32(mem, addr) ==
    FromBytes32(<<mem[EAddr(addr)], mem[EAddr(addr + 1)], mem[EAddr(addr + 2)], mem[EAddr(addr + 3)]>>)
GetEvent(mem, addr) ==
    Event(Get32(mem, addr), mem[EAddr(addr + 4)], mem[EAddr(addr + 5)] + 256 * mem[EAddr(addr + 6)])
\* The byte writes of EEPROM.put(addr, bytes), in the order they are made.
PutWrites(addr, bytes) == [i \in 1..Len(bytes) |-> [addr |-> EAddr(addr + i - 1), byte |-> bytes[i]]]
\* The store after a sequence of byte writes.
RECURSIVE ApplyWrites(_, _)
ApplyWrites(mem, ws) ==
    IF ws = <<>> THEN mem
    ELSE ApplyWrites([mem EXCEPT ![Head(ws).addr] = Head(ws).byte], Tail(ws))

\* logDataAreaLength and usableLogLength as logEvent, printLogs and
\* findNextEEPROMAddress compute them.
logDataAreaLength == storeLength - LOG_START_ADDRESS
usableLogLength ==
    IF logDataAreaLength >= RECORD_SIZE THEN (logDataAreaLength \div RECORD_SIZE) * RECORD_SIZE ELSE 0
\* Number of whole record slots of the log region, and the address of slot i.
NumSlots == usableLogLength \div RECORD_SIZE
SlotAddr(i) == LOG_START_ADDRESS + i * RECORD_SIZE

(***************************************************************************)
(* Event types, characters and the C library's number parsing              *)
(***************************************************************************)
AUTO_IRRIGATION == 0
AUTO_LIGHT == 1
LIGHT_TH == 2
MOISTURE_TH == 3
MEASURE_MOISTURE == 4
MEASURE_LIGHT == 5

\* A command line is a sequence of one-character strings.
DigitChars == {"0", "1", "2", "3", "4", "5", "6", "7", "8", "9"}
DigitVal(c) ==
    CASE c = "0" -> 0 [] c = "1" -> 1 [] c = "2" -> 2 [] c = "3" -> 3 [] c = "4" -> 4
      [] c = "5" -> 5 [] c = "6" -> 6 [] c = "7" -> 7 [] c = "8" -> 8 [] c = "9" -> 9
IsSpace(c) == c \in {" ", "\t"}

\* Position of the first character of s at or after i that is not white space.
RECURSIVE SkipSpace(_, _)
SkipSpace(s, i) == IF i <= Len(s) /\ IsSpace(s[i]) THEN SkipSpace(s, i + 1) ELSE i

\* atol (avr-libc): white space, an optional sign, then decimal digits up to
\* the first other character; the digits accumulate in a 32-bit register
\* with no overflow check.  The result is the bit pattern of the long, which
\* is what static_cast<uint32_t> keeps.
RECURSIVE AtolDigits(_, _, _)
AtolDigits(s, i, acc) ==
    IF i <= Len(s) /\ s[i] \in DigitChars
    THEN AtolDigits(s, i + 1, Mul10Add32(acc, DigitVal(s[i])))
    ELSE acc
Atol(s) ==
    LET i == SkipSpace(s, 1)
        neg == i <= Len(s) /\ s[i] = "-"
        j == IF i <= Len(s) /\ s[i] \in {"-", "+"} THEN i + 1 ELSE i
        mag == AtolDigits(s, j, ZERO32)
    IN  IF neg THEN Sub32(ZERO32, mag) ELSE mag

\* atoi (avr-libc): the same with a 16-bit register; the result is the bit
\* pattern of the int, which is what static_cast<uint16_t> keeps.
RECURSIVE AtoiDigits(_, _, _)
AtoiDigits(s, i, acc) ==
    IF i <= Len(s) /\ s[i] \in DigitChars
    THEN AtoiDigits(s, i + 1, (acc * 10 + DigitVal(s[i])) % 65536)
    ELSE acc
AtoiU16(s) ==
    LET i == SkipSpace(s, 1)
        neg == i <= Len(s) /\ s[i] = "-"
        j == IF i <= Len(s) /\ s[i] \in {"-", "+"} THEN i + 1 ELSE i
        mag == AtoiDigits(s, j, 0)
    IN  IF neg THEN (65536 - mag) % 65536 ELSE mag

\* constrain(x, lo, hi) of Arduino.h
Constrain(x, lo, hi) == IF x < lo THEN lo ELSE IF x > hi THEN hi ELSE x

(***************************************************************************)
(* The event log's scans                                                   *)
(***************************************************************************)
\* findNextEEPROMAddress: the address of the first slot whose timestamp is
\* the sentinel, in record-sized strides from the region start; the region
\* start, with the OverwritingLogs warning, when there is none.
RECURSIVE FindFrom(_, _)
FindFrom(mem, offset) ==
    IF offset >= (logDataAreaLength \div RECORD_SIZE) * RECORD_SIZE
    THEN [addr |-> LOG_START_ADDRESS, warn |-> TRUE]
    ELSE IF GetEvent(mem, LOG_START_ADDRESS + offset).timestamp = SENTINEL
         THEN [addr |-> LOG_START_ADDRESS + offset, warn |-> FALSE]
         ELSE FindFrom(mem, offset + RECORD_SIZE)
findNextEEPROMAddress(mem) == FindFrom(mem, 0)

\* printLogs' loop: the records from the region start up to the first
\* sentinel timestamp or the end of the region.
RECURSIVE DumpFrom(_, _)
DumpFrom(mem, offset) ==
    IF offset >= (logDataAreaLength \div RECORD_SIZE) * RECORD_SIZE THEN <<>>
    ELSE LET e == GetEvent(mem, LOG_START_ADDRESS + offset)
         IN  IF e.timestamp = SENTINEL THEN <<>>
             ELSE <<e>> \o DumpFrom(mem, offset + RECORD_SIZE)

\* A line of serial output: its kind (the literal text it starts with), for
\* a CSV line of a dump the record whose three fields Serial.print writes in
\* decimal, the numbers of a value or telemetry line, and the echoed text.
NoEvent == Event(ZERO32, 0, 0)
SerialLine(kind, e, nums, text) == [kind |-> kind, ev |-> e, nums |-> nums, text |-> text]
Line(kind, e) == SerialLine(kind, e, <<>>, <<>>)
CsvLines(events) == [i \in 1..Len(events) |-> Line("csv", events[i])]
printLogsLines(mem) ==
    <<Line("TS,T,V", NoEvent)>> \o CsvLines(DumpFrom(mem, 0)) \o <<Line("E", NoEvent)>>

\* A cursor that advances with no wrap at the end of the usable region.
AdvanceAddrNoWrap(addr) == addr + RECORD_SIZE
\* logEvent: the cursor after a record was written at addr.
AdvanceAddr(addr) ==
    IF addr + RECORD_SIZE >= LOG_START_ADDRESS + usableLogLength
    THEN LOG_START_ADDRESS
    ELSE addr + RECORD_SIZE

\* clearLogs: the byte writes of its loop, which strides over
\* logDataAreaLength (not usableLogLength).
RECURSIVE ClearWrites(_)
ClearWrites(offset) ==
    IF offset >= logDataAreaLength THEN <<>>
    ELSE PutWrites(LOG_START_ADDRESS + offset, EventBytes(Event(SENTINEL, 0, 0)))
         \o ClearWrites(offset + RECORD_SIZE)

clearLogsWrites == ClearWrites(0)

\* A setup that adopts the stored clock value without the validity check.
RecoveredTimeUnchecked(mem) == Get32(mem, EEPROM_ADDR_CURRENT_TIME)
\* setup: the stored clock value is adopted when plausible.
RecoveredTime(mem) ==
    LET storedTime == Get32(mem, EEPROM_ADDR_CURRENT_TIME)
    IN  IF Geq32(storedTime, InitialTime) /\ storedTime # SENTINEL THEN storedTime ELSE InitialTime


(***************************************************************************)
(* State                                                                   *)
(***************************************************************************)
VARIABLES
    eeprom,         \* the non-volatile store: address -> byte
    nextAddr,       \* unsigned int nextAddr: the log cursor
    currentTime,    \* volatile uint32_t currentTime
    lastSavedTime,  \* updateTimeTask's lastSavedTime
    serialOut,      \* the lines the last operation wrote to the serial link
    ticks,          \* clock ticks taken so far (bounds the run)
    resets,         \* resets and power losses so far (bounds the run)
    nlogs,          \* records appended since the last clear (bounds the run)
    history,        \* whether this run keeps the history variables below
    tracked,        \* history: the log was cleared and only appended to since
    appended,       \* history: the records appended since that clear, in order
    order,          \* history: the slots holding a record, oldest write first
    moistureTh,     \* uint16_t moistureTh
    lightTh,        \* uint16_t lightTh
    moisture,       \* uint16_t moisture
    light,          \* uint16_t light
    irrigationPin,  \* the level of irrigationPins[0]: TRUE is HIGH
    globalBrightness, \* uint8_t globalBrightness
    wasLightLow,    \* autoControlTask's static wasLightLow
    lastPeriodicLog, \* readSensorsTask's static lastPeriodicLog
    ops,            \* handler runs so far (bounds the run)
    lastOp,         \* history: the handler that ran last, with its input
    lastLogged,     \* history: the <<type, value>> pairs it passed to logEvent
    pc,             \* where each task is
    eepromMutex,    \* the owner of eepromMutex, or "none"
    sensorMutex,    \* the owner of sensorMutex, or "none"
    serialMutex,    \* the owner of serialMutex, or "none"
    sens,           \* readSensorsTask's localMoisture and localLight
    ctl,            \* autoControlTask's locals of the tick in progress
    clkReg,         \* updateTimeTask's register copy of currentTime
    prog,           \* serialComTask: what is left of handleCommand
    snap,           \* logCurrentSystemState's localMoisture and localLight
    logq,           \* per task, the logEvent calls it is about to make
    ret,            \* per task, where it continues after those calls
    tsLo,           \* logEvent: the low half of currentTime already read
    timesInLock,    \* history: the values currentTime held since logEvent took the lock
    samples,        \* sampler iterations so far (bounds the run)
    ctrlTicks,      \* controller ticks so far (bounds the run)
    cmds,           \* command lines so far (bounds the run)
    crossings,      \* history: threshold crossings of the sampled moisture readings
    prevSide,       \* history: whether the last sampled reading was above the threshold
    seenLatest,     \* history: the controller has copied the latest sample
    irrEntries,     \* history: auto-irrigation records appended
    pinFlips,       \* history: changes of the irrigation pin by the controller
    snapshots,      \* history: irrigation-state records appended by a D snapshot
    halted,         \* setup() never returned: no task was created
    cmd_buffer,     \* serialComTask's cmd_buffer[0 .. buffer_index - 1]
    line,           \* history: the bytes received since the last terminator
    nbytes          \* bytes received so far (bounds the run)

logVars == <<eeprom, nextAddr, currentTime, lastSavedTime, serialOut, ticks, resets,
            nlogs, history, tracked, appended, order>>
devVars == <<moistureTh, lightTh, moisture, light, irrigationPin, globalBrightness,
            wasLightLow, lastPeriodicLog, ops, lastOp, lastLogged>>
taskVars == <<pc, eepromMutex, sensorMutex, serialMutex, sens, ctl, clkReg, prog, snap, logq,
             ret, tsLo, timesInLock, samples, ctrlTicks, cmds, crossings, prevSide,
             seenLatest, irrEntries, pinFlips, snapshots>>
readerVars == <<cmd_buffer, line, nbytes>>

\* The tasks of priority 1, and the locals of a controller tick not begun.
Tasks1 == {"Sensors", "AutoCtrl", "Time"}
CtlIdle == [m |-> 0, l |-> 0, isOn |-> FALSE, th1 |-> -1, th2 |-> -1, irr |-> <<>>]
NoSample == [m |-> 0, l |-> 0]

\* The serial link and the store at the grain of a Serial.print call and of a
\* byte write: the byte writes an EEPROM.put in progress has not made yet,
\* the offset printLogs is at (-1 outside a dump), and what has happened on
\* the link: a write landed inside another task's unfinished line, a write
\* was made by a task that did not hold serialMutex, another task wrote
\* between the header and the end marker of a dump.
VARIABLES putRest, dumpAt, mixed, unguarded, intruded
ioVars == <<putRest, dumpAt, mixed, unguarded, intruded>>
vars == <<logVars, devVars, taskVars, readerVars, ioVars, storeLength, halted>>

\* static constexpr uint32_t timeSaveInterval = 15 * 60
timeSaveInterval == U32(0, 900)

(***************************************************************************)
(* The event log's operations on the store                                 *)
(***************************************************************************)
\* The store together with the cursor.
LogState(mem, addr) == [mem |-> mem, addr |-> addr]

\* A logEvent without the test of the usable length.
logEventUnchecked(log, time, type, value) ==
    LogState(ApplyWrites(log.mem, PutWrites(log.addr, EventBytes(Event(time, type, value)))),
             AdvanceAddr(log.addr))
\* logEvent(type, value) at time `time`: the record is put at the cursor and
\* the cursor advances, wrapping at the end of the usable region.
logEvent(log, time, type, value) ==
    IF usableLogLength = 0 THEN log
    ELSE LogState(ApplyWrites(log.mem, PutWrites(log.addr, EventBytes(Event(time, type, value)))),
                  AdvanceAddr(log.addr))

\* Consecutive logEvent calls of one caller, for <<type, value>> pairs.
RECURSIVE logEvents(_, _, _)
logEvents(log, time, evs) ==
    IF evs = <<>> THEN log
    ELSE logEvents(logEvent(log, time, Head(evs)[1], Head(evs)[2]), time, Tail(evs))

\* clearLogs()
clearLogs(log) == LogState(ApplyWrites(log.mem, clearLogsWrites), LOG_START_ADDRESS)

\* Slot index of a record address; whether slot i of mem holds a record.
SlotOf(addr) == (addr - LOG_START_ADDRESS) \div RECORD_SIZE
SlotValid(mem, i) == GetEvent(mem, SlotAddr(i)).timestamp # SENTINEL
\* The write order once slot i was written: i is now the newest.
Touch(ord, i) == Append(SelectSeq(ord, LAMBDA j : j # i), i)
KeepValid(ord, mem) == SelectSeq(ord, LAMBDA j : SlotValid(mem, j))

(***************************************************************************)
(* The event log and the clock as sequential operations (SpecLog).  Each   *)
(* action is one whole call; a power loss cuts a call after some of its    *)
(* byte writes and is followed by setup().                                 *)
(***************************************************************************)
\* The (type, value) arguments and the time-set lines the log runs use.
LogInputs == {<<MOISTURE_TH, 1023>>, <<MEASURE_LIGHT, 300>>}
TimeLines == {<<"T", "-", "1">>}

\* findNextEEPROMAddress takes serialMutex for its warning, and setup() calls
\* it before it creates the mutexes: the take is of a null handle, with the
\* scheduler not started.  The queue code then reads the bytes at address 0
\* as the semaphore: it either finds a count there, and the warning is
\* written, or finds none and blocks with no task to block, and setup()
\* never returns.
UncreatedTakeOutcomes == {"taken", "hang"}

\* setup(): RAM is initialised again, the clock slot is adopted when
\* plausible and the cursor is recovered by the scan.
SetupAfter(mem, ord) ==
    /\ resets < MaxResets
    /\ order' = KeepValid(ord, mem)
    /\ resets' = resets + 1
    /\ eeprom' = mem
    /\ currentTime' = RecoveredTime(mem)
    /\ nextAddr' = findNextEEPROMAddress(mem).addr
    /\ lastSavedTime' = ZERO32
    /\ IF findNextEEPROMAddress(mem).warn
       THEN \E outcome \in UncreatedTakeOutcomes :
                /\ halted' = (outcome = "hang")
                /\ serialOut' = IF outcome = "taken"
                                THEN <<Line("ROverwritingLogs", NoEvent)>> ELSE <<>>
       ELSE /\ halted' = FALSE
            /\ serialOut' = <<>>
    /\ tracked' = FALSE
    /\ appended' = <<>>
    /\ UNCHANGED <<ticks, nlogs, history, devVars>>

\* logEvent(type, value) with usableLogLength > 0, run to completion.
LogEventOp(type, value) ==
    /\ ~halted
    /\ usableLogLength > 0
    /\ nlogs < MaxAppends
    /\ nlogs' = nlogs + 1
    /\ \E log \in {logEvent(LogState(eeprom, nextAddr), currentTime, type, value)} :
           /\ eeprom' = log.mem
           /\ nextAddr' = log.addr
    /\ appended' = IF tracked THEN Append(appended, Event(currentTime, type, value)) ELSE appended
    /\ order' = KeepValid(Touch(order, SlotOf(nextAddr)), eeprom')
    /\ serialOut' = <<>>
    /\ UNCHANGED <<currentTime, lastSavedTime, ticks, resets, history, tracked, devVars, halted>>

\* clearLogs(), run to completion.
ClearLogsOp ==
    /\ ~halted
    /\ \E log \in {clearLogs(LogState(eeprom, nextAddr))} :
           /\ eeprom' = log.mem
           /\ nextAddr' = log.addr
    /\ nlogs' = 0
    /\ tracked' = history
    /\ appended' = <<>>
    /\ order' = <<>>
    /\ serialOut' = <<>>
    /\ UNCHANGED <<currentTime, lastSavedTime, ticks, resets, history, devVars, halted>>

\* printLogs()
PrintLogsOp ==
    /\ ~halted
    /\ serialOut' = printLogsLines(eeprom)
    /\ UNCHANGED <<eeprom, nextAddr, currentTime, lastSavedTime, ticks, resets, nlogs,
                   history, tracked, appended, order, devVars, halted>>

\* handleCommand on a line whose first character is CMD_TIME.
TimeCommandOp(cmd) ==
    /\ ~halted
    /\ cmd[1] = "T"
    /\ currentTime' = Atol(Tail(cmd))
    /\ eeprom' = ApplyWrites(eeprom, PutWrites(EEPROM_ADDR_CURRENT_TIME, Bytes32(currentTime')))
    /\ serialOut' = <<>>
    /\ UNCHANGED <<nextAddr, lastSavedTime, ticks, resets, nlogs, history, tracked,
                   appended, order, devVars, halted>>

\* One iteration of updateTimeTask.
ClockTickOp ==
    /\ ~halted
    /\ ticks < MaxTicks
    /\ ticks' = ticks + 1
    /\ currentTime' = Inc32(currentTime)
    /\ IF Geq32(Sub32(currentTime', lastSavedTime), timeSaveInterval)
       THEN /\ eeprom' = ApplyWrites(eeprom, PutWrites(EEPROM_ADDR_CURRENT_TIME, Bytes32(currentTime')))
            /\ lastSavedTime' = currentTime'
       ELSE UNCHANGED <<eeprom, lastSavedTime>>
    /\ serialOut' = <<>>
    /\ UNCHANGED <<nextAddr, resets, nlogs, history, tracked, appended, order, devVars, halted>>

\* A reset or power loss between two operations.
ResetOp == \E mem \in {eeprom} : SetupAfter(mem, order)

\* Power is lost inside logEvent's EEPROM.put after n of its 7 byte writes.
PowerLossInLogEvent(type, value, n) ==
    /\ ~halted
    /\ usableLogLength > 0
    /\ \E mem \in {ApplyWrites(eeprom,
               SubSeq(PutWrites(nextAddr, EventBytes(Event(currentTime, type, value))), 1, n))} :
           SetupAfter(mem, Touch(order, SlotOf(nextAddr)))

\* Power is lost inside clearLogs after some, not all, of its byte writes.
PowerLossInClearLogs ==
    /\ ~halted
    /\ \E ws \in {clearLogsWrites} :
       \E n \in 1..(Len(ws) - 1) :
       \E mem \in {ApplyWrites(eeprom, SubSeq(ws, 1, n))} : SetupAfter(mem, order)

\* The globals as initialised, with an erased store, after setup().
DevInit ==
    /\ moistureTh = 500
    /\ lightTh = 500
    /\ moisture = 0
    /\ light = 0
    /\ irrigationPin = FALSE
    /\ globalBrightness = 0
    /\ wasLightLow = FALSE
    /\ lastPeriodicLog = ZERO32
    /\ ops = 0
    /\ lastOp = <<"setup">>
    /\ lastLogged = <<>>
\* The tasks as created by setup(), before any of them has run.
TaskInit ==
    /\ pc = [t \in Tasks1 \cup {"Serial"} |->
                IF t = "Sensors" THEN "store1" ELSE IF t = "AutoCtrl" THEN "copy1"
                ELSE IF t = "Time" THEN "inc_read" ELSE "idle"]
    /\ eepromMutex = "none"
    /\ sensorMutex = "none"
    /\ serialMutex = "none"
    /\ sens = NoSample
    /\ ctl = CtlIdle
    /\ clkReg = ZERO32
    /\ prog = <<>>
    /\ snap = NoSample
    /\ logq = [t \in Tasks1 |-> <<>>]
    /\ ret = [t \in Tasks1 |-> "none"]
    /\ tsLo = 0
    /\ timesInLock = {}
    /\ samples = 0
    /\ ctrlTicks = 0
    /\ cmds = 0
    /\ crossings = 0
    /\ prevSide = FALSE
    /\ seenLatest = TRUE
    /\ irrEntries = 0
    /\ pinFlips = 0
    /\ snapshots = 0
\* No EEPROM.put and no dump in progress, nothing written yet.
IoInit ==
    /\ putRest = <<>>
    /\ dumpAt = -1
    /\ mixed = FALSE
    /\ unguarded = FALSE
    /\ intruded = FALSE
\* serialComTask's statics before the first byte.
ReaderInit ==
    /\ cmd_buffer = <<>>
    /\ line = <<>>
    /\ nbytes = 0
\* The state after setup() on a device whose store has len bytes, all erased.
StoreInit(len, h) ==
    /\ storeLength = len
    /\ halted = FALSE
    /\ history = h
    /\ nlogs = 0
    /\ eeprom = [a \in 0..(len - 1) |-> 255]
    /\ nextAddr = findNextEEPROMAddress(eeprom).addr
    /\ currentTime = InitialTime
    /\ lastSavedTime = ZERO32
    /\ serialOut = IF findNextEEPROMAddress(eeprom).warn
                   THEN <<Line("ROverwritingLogs", NoEvent)>> ELSE <<>>
    /\ ticks = 0
    /\ resets = 0
    /\ tracked = FALSE
    /\ appended = <<>>
    /\ order = <<>>
    /\ DevInit
    /\ TaskInit
    /\ ReaderInit
    /\ IoInit
LogInitWith(h) == StoreInit(EepromLength, h)

\* The log's operations with resets between them, with the history kept.
LogInit == LogInitWith(TRUE)
LogNext ==
    /\ UNCHANGED <<taskVars, readerVars, ioVars, storeLength>>
    /\ \/ \E in \in LogInputs : LogEventOp(in[1], in[2])
       \/ ClearLogsOp
       \/ PrintLogsOp
       \/ \E cmd \in TimeLines : TimeCommandOp(cmd)
       \/ ClockTickOp
       \/ ResetOp
SpecLog == LogInit /\ [][LogNext]_vars

\* The same with power losses inside the operations, without the history.
PowerInit == LogInitWith(FALSE)
PowerNext ==
    /\ UNCHANGED <<taskVars, readerVars, ioVars, storeLength>>
    /\ \/ \E in \in LogInputs : LogEventOp(in[1], in[2])
       \/ ClearLogsOp
       \/ \E cmd \in TimeLines : TimeCommandOp(cmd)
       \/ ClockTickOp
       \/ ResetOp
       \/ \E in \in LogInputs, n \in 1..(RECORD_SIZE - 1) : PowerLossInLogEvent(in[1], in[2], n)
       \/ PowerLossInClearLogs
SpecPower == PowerInit /\ [][PowerNext]_vars

(***************************************************************************)
(* The device as sequential handlers (SpecSeq): one action is one whole    *)
(* command, one whole sampler iteration or one whole controller tick.      *)
(***************************************************************************)
\* static constexpr uint8_t logSensorPeriod = 5 * 60: the 8-bit value kept.
logSensorPeriod == (5 * 60) % 256

\* static_cast<int>(long) on a 16-bit int: the low 16 bits, signed.
ToInt16(x) == ((x + 32768) % 65536) - 32768

\* The quotients a division by zero can leave in the long result.
DivByZeroQuotients == {-1, 0, 1}

\* map(x, in_min, in_max, out_min, out_max) of WMath.cpp, in long
\* arithmetic with a division that truncates towards zero; q is the quotient
\* taken when the divisor is zero.
TruncDiv(a, b) == IF a >= 0 THEN a \div b ELSE -((-a) \div b)
MapWith(x, in_min, in_max, out_min, out_max, q) ==
    IF in_max - in_min = 0 THEN q + out_min
    ELSE TruncDiv((x - in_min) * (out_max - out_min), in_max - in_min) + out_min

\* An actuator driven with the inverted level.
setIrrigationPinsInverted(state) == ~state
\* setIrrigationPins(state): the level the pin is left at.
setIrrigationPins(state) == state

\* setLightPins(brightness): the globalBrightness it leaves.
setLightPins(brightness) == Constrain(brightness, 0, 255)

\* logCurrentSystemState(): the six logEvent calls, in order.
logCurrentSystemState(m, l, mTh, lTh, pin, brightness) ==
    << <<MEASURE_MOISTURE, m>>, <<MEASURE_LIGHT, l>>, <<MOISTURE_TH, mTh>>, <<LIGHT_TH, lTh>>,
       <<AUTO_IRRIGATION, IF pin THEN 1 ELSE 0>>, <<AUTO_LIGHT, brightness>> >>

\* The write order once n consecutive records were written from addr.
RECURSIVE TouchAll(_, _, _)
TouchAll(ord, addr, n) ==
    IF n = 0 THEN ord ELSE TouchAll(Touch(ord, SlotOf(addr)), AdvanceAddr(addr), n - 1)

\* What logEvent writes to the serial link over the calls for evs: its
\* NoLogSpace error, once per call, when the region holds no record.
logEventLines(evs) ==
    IF usableLogLength = 0 THEN [i \in 1..Len(evs) |-> Line("RNoLogSpace", NoEvent)] ELSE <<>>

\* A handler that calls logEvent for evs, after clearLogs when clear is set.
HandlerLogs(clear, evs) ==
    /\ \E log0 \in {IF clear THEN clearLogs(LogState(eeprom, nextAddr))
                             ELSE LogState(eeprom, nextAddr)} :
       \E log \in {logEvents(log0, currentTime, evs)} :
           /\ eeprom' = log.mem
           /\ nextAddr' = log.addr
           /\ order' = KeepValid(TouchAll(IF clear THEN <<>> ELSE order, log0.addr,
                                          IF usableLogLength = 0 THEN 0 ELSE Len(evs)),
                                 log.mem)
    /\ lastLogged' = evs
    /\ UNCHANGED <<nlogs, history, tracked, appended>>

\* The effect of handleCommand(cmd) for each branch of its dispatch.
TimeCommand(cmd) ==
    /\ currentTime' = Atol(Tail(cmd))
    /\ eeprom' = ApplyWrites(eeprom, PutWrites(EEPROM_ADDR_CURRENT_TIME, Bytes32(currentTime')))
    /\ serialOut' = <<>>
    /\ lastLogged' = <<>>
    /\ UNCHANGED <<nextAddr, order, nlogs, history, tracked, appended, moistureTh, lightTh>>
GetLogsCommand ==
    /\ serialOut' = printLogsLines(eeprom)
    /\ lastLogged' = <<>>
    /\ UNCHANGED <<eeprom, nextAddr, order, nlogs, history, tracked, appended, currentTime,
                   moistureTh, lightTh>>
DeleteLogsCommand ==
    /\ \E evs \in {logCurrentSystemState(moisture, light, moistureTh, lightTh,
                                          irrigationPin, globalBrightness)} :
           /\ HandlerLogs(TRUE, evs)
           /\ serialOut' = logEventLines(evs)
    /\ UNCHANGED <<currentTime, moistureTh, lightTh>>
GetThresholdCommand(kind, th) ==
    /\ serialOut' = <<SerialLine(kind, NoEvent, <<th>>, <<>>)>>
    /\ lastLogged' = <<>>
    /\ UNCHANGED <<eeprom, nextAddr, order, nlogs, history, tracked, appended, currentTime,
                   moistureTh, lightTh>>
SetLightThreshold(val) ==
    /\ lightTh' = Constrain(val, 0, 1023)
    /\ HandlerLogs(FALSE, << <<LIGHT_TH, lightTh'>> >>)
    /\ serialOut' = logEventLines(<< <<LIGHT_TH, lightTh'>> >>)
    /\ UNCHANGED <<currentTime, moistureTh>>
\* A handler that logs the parsed value instead of the stored threshold.
SetMoistureThresholdRaw(val) ==
    /\ moistureTh' = Constrain(val, 0, 1023)
    /\ HandlerLogs(FALSE, << <<MOISTURE_TH, val>> >>)
    /\ serialOut' = logEventLines(<< <<MOISTURE_TH, val>> >>)
    /\ UNCHANGED <<currentTime, lightTh>>
SetMoistureThreshold(val) ==
    /\ moistureTh' = Constrain(val, 0, 1023)
    /\ HandlerLogs(FALSE, << <<MOISTURE_TH, moistureTh'>> >>)
    /\ serialOut' = logEventLines(<< <<MOISTURE_TH, moistureTh'>> >>)
    /\ UNCHANGED <<currentTime, lightTh>>
unknownCommand(cmd) ==
    /\ serialOut' = <<SerialLine("U", NoEvent, <<>>, cmd)>>
    /\ lastLogged' = <<>>
    /\ UNCHANGED <<eeprom, nextAddr, order, nlogs, history, tracked, appended, currentTime,
                   moistureTh, lightTh>>

\* handleCommand(cmd) for a non-empty line, run to completion.
handleCommand(cmd) ==
    IF cmd[1] = "T" THEN TimeCommand(cmd)
    ELSE IF cmd = <<"G">> THEN GetLogsCommand
    ELSE IF cmd = <<"D">> THEN DeleteLogsCommand
    ELSE IF cmd = <<"X">> THEN GetThresholdCommand("X", moistureTh)
    ELSE IF cmd = <<"Z">> THEN GetThresholdCommand("Z", lightTh)
    ELSE IF Len(cmd) >= 2 /\ cmd[1] = "L" THEN SetLightThreshold(AtoiU16(Tail(cmd)))
    ELSE IF Len(cmd) >= 2 /\ cmd[1] = "M" THEN SetMoistureThreshold(AtoiU16(Tail(cmd)))
    ELSE unknownCommand(cmd)

\* The lines the command runs receive and the readings the sensors give.
CmdLines ==
    { <<"M", "2", "0", "0", "0">>, <<"M", "-", "5">>, <<"M", "6", "5", "5", "3", "7">>,
      <<"M", "3", "0", "0">>, <<"L", "0">>, <<"L", "7", "0", "0">>, <<"L", "x">>,
      <<"M">>, <<"Q", "Q", "Q">>, <<"G">>, <<"D">>, <<"X">>, <<"Z">>,
      <<"T", "-", "1">>, <<"T", "1", "8", "0", "0", "0", "0", "0", "0", "0", "0">>, <<"T">> }
MoistureReadings == {400, 600}
LightReadings == {300, 700}

\* serialComTask hands a completed non-empty line to handleCommand.
HandleCommandOp(cmd) ==
    /\ ops < MaxOps
    /\ ops' = ops + 1
    /\ lastOp' = <<"cmd", cmd>>
    /\ handleCommand(cmd)
    /\ UNCHANGED <<lastSavedTime, ticks, resets, moisture, light, irrigationPin,
                   globalBrightness, wasLightLow, lastPeriodicLog>>

\* One iteration of readSensorsTask with readings m and l.
ReadSensorsOp(m, l) ==
    /\ ops < MaxOps
    /\ ops' = ops + 1
    /\ lastOp' = <<"sensors", m, l>>
    /\ moisture' = m
    /\ light' = l
    /\ \E evs \in {IF Geq32(Sub32(currentTime, lastPeriodicLog), U32(0, logSensorPeriod))
                    THEN << <<MEASURE_MOISTURE, m>>, <<MEASURE_LIGHT, l>> >> ELSE <<>>} :
           /\ HandlerLogs(FALSE, evs)
           /\ lastPeriodicLog' = IF evs # <<>> THEN currentTime ELSE lastPeriodicLog
           /\ serialOut' = <<SerialLine("ml", NoEvent, <<m, l>>, <<>>)>> \o logEventLines(evs)
    /\ UNCHANGED <<currentTime, lastSavedTime, ticks, resets, moistureTh, lightTh,
                   irrigationPin, globalBrightness, wasLightLow>>

\* The branch the irrigation control takes for the copied reading m, the
\* pin level isOn and the threshold read by its first and second comparison.
IrrigationBranch(m, isOn, th1, th2) ==
    IF m > th1 /\ ~isOn THEN "on"
    ELSE IF m <= th2 /\ isOn THEN "off"
    ELSE "none"
\* A controller that logs the actuator state on every tick.
IrrigationEventsEveryTick(branch) ==
    IF branch = "off" THEN << <<AUTO_IRRIGATION, 0>> >> ELSE << <<AUTO_IRRIGATION, 1>> >>
IrrigationEvents(branch) ==
    IF branch = "on" THEN << <<AUTO_IRRIGATION, 1>> >>
    ELSE IF branch = "off" THEN << <<AUTO_IRRIGATION, 0>> >>
    ELSE <<>>
IrrigationPinAfter(branch, isOn) ==
    IF branch = "on" THEN setIrrigationPins(TRUE)
    ELSE IF branch = "off" THEN setIrrigationPins(FALSE)
    ELSE isOn
\* A controller that logs the light state on every tick on which it is low.
LightEventsLevel(l, th, wasLow) ==
    IF l < th THEN << <<AUTO_LIGHT, 1>> >> ELSE <<>>
\* The auto-light record of a tick with reading l against threshold th.
LightEvents(l, th, wasLow) ==
    IF (l < th) # wasLow THEN << <<AUTO_LIGHT, IF l < th THEN 1 ELSE 0>> >> ELSE <<>>

\* One iteration of autoControlTask.
AutoControlOp ==
    /\ ops < MaxOps
    /\ ops' = ops + 1
    /\ lastOp' = <<"ctrl">>
    /\ \E branch \in {IrrigationBranch(moisture, irrigationPin, moistureTh, moistureTh)} :
       \E evs \in {IrrigationEvents(branch) \o LightEvents(light, lightTh, wasLightLow)} :
           /\ irrigationPin' = IrrigationPinAfter(branch, irrigationPin)
           /\ HandlerLogs(FALSE, evs)
           /\ serialOut' = logEventLines(evs)
    /\ \E q \in (IF lightTh = 0 THEN DivByZeroQuotients ELSE {0}) :
           globalBrightness' = setLightPins(ToInt16(MapWith(light, 0, lightTh, 255, 0, q)))
    /\ wasLightLow' = (light < lightTh)
    /\ UNCHANGED <<currentTime, lastSavedTime, ticks, resets, moistureTh, lightTh, moisture,
                   light, lastPeriodicLog>>

SeqInit == LogInitWith(FALSE)
SeqNext ==
    /\ UNCHANGED <<taskVars, readerVars, ioVars, storeLength, halted>>
    /\ \/ \E cmd \in CmdLines : HandleCommandOp(cmd)
       \/ \E m \in MoistureReadings, l \in LightReadings : ReadSensorsOp(m, l)
       \/ AutoControlOp
       \/ ClockTickOp
SpecSeq == SeqInit /\ [][SeqNext]_vars

(***************************************************************************)
(* The four tasks under the scheduler (Spec).  A step of a task is the     *)
(* code between two points where it takes or gives a mutex or touches a    *)
(* shared variable.  serialComTask has priority 2: from the moment it has  *)
(* a line until it is done it runs alone, except while it waits for a      *)
(* mutex, when the owner of that mutex runs (priority inheritance).  The   *)
(* three tasks of priority 1 are time-sliced and interleave at every step. *)
(***************************************************************************)
\* What is left of handleCommand(cmd), as the segments between its mutex
\* takes, in the order of its dispatch.
CommandSegments(cmd) ==
    IF cmd[1] = "T" THEN << <<"settime", cmd>>, <<"savetime">> >>
    ELSE IF cmd = <<"G">> THEN << <<"dump">> >>
    ELSE IF cmd = <<"D">> THEN << <<"clear">>, <<"copy">>, <<"snap", 1>>, <<"snap", 2>>,
                                  <<"snap", 3>>, <<"snap", 4>>, <<"snap", 5>>, <<"snap", 6>> >>
    ELSE IF cmd = <<"X">> THEN << <<"getth", "X">> >>
    ELSE IF cmd = <<"Z">> THEN << <<"getth", "Z">> >>
    ELSE IF Len(cmd) >= 2 /\ cmd[1] \in {"L", "M"}
         THEN << <<"setth", cmd[1], AtoiU16(Tail(cmd))>>, <<"logth", cmd[1]>> >>
    ELSE << <<"unknown", cmd>> >>

\* The segments with printLogs taking no mutex.
SegmentNeedsNoDumpLock(seg) ==
    IF seg[1] \in {"savetime", "clear", "snap", "logth"} THEN "eeprom"
    ELSE IF seg[1] \in {"getth", "unknown"} THEN "serial"
    ELSE IF seg[1] = "copy" THEN "sensor"
    ELSE "none"
\* The mutex a segment takes first, and the owner of a mutex.
SegmentNeeds(seg) ==
    IF seg[1] \in {"savetime", "clear", "snap", "logth"} THEN "eeprom"
    ELSE IF seg[1] \in {"dump", "getth", "unknown"} THEN "serial"
    ELSE IF seg[1] = "copy" THEN "sensor"
    ELSE "none"
MutexOwner(mutex) ==
    IF mutex = "eeprom" THEN eepromMutex
    ELSE IF mutex = "serial" THEN serialMutex
    ELSE IF mutex = "sensor" THEN sensorMutex
    ELSE "none"

\* The task serialComTask waits for, and who may run.
SerialNeeds == IF pc["Serial"] = "run" THEN SegmentNeeds(Head(prog)) ELSE "none"
SerialBlockedOn ==
    IF MutexOwner(SerialNeeds) = "Serial" THEN "none" ELSE MutexOwner(SerialNeeds)
CanRun(t) == pc["Serial"] = "idle" \/ SerialBlockedOn = t
SerialRuns(kind) ==
    /\ pc["Serial"] = "run"
    /\ Head(prog)[1] = kind
    /\ SerialNeeds # "none" => MutexOwner(SerialNeeds) = "Serial"
SerialPcAfter == [pc EXCEPT !["Serial"] = IF Tail(prog) = <<>> THEN "idle" ELSE "run"]
Goto(t, label) == [pc EXCEPT ![t] = label]
Count(n, cond) == IF cond THEN n + 1 ELSE n
\* timesInLock once currentTime became time.
TimesAfter(time) == IF timesInLock = {} THEN {} ELSE timesInLock \cup {time}

\* The readings a sampler iteration gets, and the lines the link delivers.
TaskSamples == {<<400, 300>>, <<600, 700>>}
TaskCmdLines ==
    { <<"T", "1", "7", "0", "4", "1", "3", "2", "6", "0", "7">>, <<"G">>, <<"D">>, <<"X">>,
      <<"M", "7", "0", "0">>, <<"Q", "Q", "Q">> }

\* readSensorsTask storing moisture with no take of sensorMutex.
SensorStore1NoTake(m, l) ==
    /\ pc["Sensors"] = "store1"
    /\ CanRun("Sensors")
    /\ samples < MaxSamples
    /\ samples' = samples + 1
    /\ sens' = [m |-> m, l |-> l]
    /\ moisture' = m
    /\ crossings' = Count(crossings, (m > moistureTh) # prevSide)
    /\ prevSide' = (m > moistureTh)
    /\ seenLatest' = FALSE
    /\ pc' = Goto("Sensors", "store2")
    /\ UNCHANGED <<eeprom, nextAddr, currentTime, lastSavedTime, serialOut, ticks, resets,
                 nlogs, history, tracked, appended, order, moistureTh, lightTh, light,
                 irrigationPin, globalBrightness, wasLightLow, lastPeriodicLog, ops,
                 lastOp, lastLogged, eepromMutex, sensorMutex, serialMutex, ctl, clkReg,
                 prog, snap, logq, ret, tsLo, timesInLock, ctrlTicks, cmds, irrEntries,
                 pinFlips, snapshots>>
\* readSensorsTask: the two analogRead calls, the take of sensorMutex and
\* moisture = localMoisture.
SensorStore1(m, l) ==
    /\ pc["Sensors"] = "store1"
    /\ CanRun("Sensors")
    /\ samples < MaxSamples
    /\ sensorMutex = "none"
    /\ samples' = samples + 1
    /\ sens' = [m |-> m, l |-> l]
    /\ sensorMutex' = "Sensors"
    /\ moisture' = m
    /\ crossings' = Count(crossings, (m > moistureTh) # prevSide)
    /\ prevSide' = (m > moistureTh)
    /\ seenLatest' = FALSE
    /\ pc' = Goto("Sensors", "store2")
    /\ UNCHANGED <<eeprom, nextAddr, currentTime, lastSavedTime, serialOut, ticks, resets,
                 nlogs, history, tracked, appended, order, moistureTh, lightTh, light,
                 irrigationPin, globalBrightness, wasLightLow, lastPeriodicLog, ops,
                 lastOp, lastLogged, eepromMutex, serialMutex, ctl, clkReg, prog, snap,
                 logq, ret, tsLo, timesInLock, ctrlTicks, cmds, irrEntries, pinFlips,
                 snapshots>>
\* readSensorsTask keeping sensorMutex after light = localLight.
SensorStore2NoGive ==
    /\ pc["Sensors"] = "store2"
    /\ CanRun("Sensors")
    /\ light' = sens.l
    /\ pc' = Goto("Sensors", "print_take")
    /\ UNCHANGED <<eeprom, nextAddr, currentTime, lastSavedTime, serialOut, ticks, resets,
                 nlogs, history, tracked, appended, order, moistureTh, lightTh, moisture,
                 irrigationPin, globalBrightness, wasLightLow, lastPeriodicLog, ops,
                 lastOp, lastLogged, eepromMutex, sensorMutex, serialMutex, sens, ctl,
                 clkReg, prog, snap, logq, ret, tsLo, timesInLock, samples, ctrlTicks,
                 cmds, crossings, prevSide, seenLatest, irrEntries, pinFlips, snapshots>>
\* light = localLight and the give of sensorMutex.
SensorStore2 ==
    /\ pc["Sensors"] = "store2"
    /\ CanRun("Sensors")
    /\ light' = sens.l
    /\ sensorMutex' = "none"
    /\ pc' = Goto("Sensors", "print_take")
    /\ UNCHANGED <<eeprom, nextAddr, currentTime, lastSavedTime, serialOut, ticks, resets,
                 nlogs, history, tracked, appended, order, moistureTh, lightTh, moisture,
                 irrigationPin, globalBrightness, wasLightLow, lastPeriodicLog, ops,
                 lastOp, lastLogged, eepromMutex, serialMutex, sens, ctl, clkReg, prog,
                 snap, logq, ret, tsLo, timesInLock, samples, ctrlTicks, cmds, crossings,
                 prevSide, seenLatest, irrEntries, pinFlips, snapshots>>
\* The take of serialMutex for the telemetry line.
SensorPrintTake ==
    /\ pc["Sensors"] = "print_take"
    /\ CanRun("Sensors")
    /\ serialMutex = "none"
    /\ serialMutex' = "Sensors"
    /\ pc' = Goto("Sensors", "print")
    /\ UNCHANGED <<eeprom, nextAddr, currentTime, lastSavedTime, serialOut, ticks, resets,
                 nlogs, history, tracked, appended, order, moistureTh, lightTh, moisture,
                 light, irrigationPin, globalBrightness, wasLightLow, lastPeriodicLog, ops,
                 lastOp, lastLogged, eepromMutex, sensorMutex, sens, ctl, clkReg, prog,
                 snap, logq, ret, tsLo, timesInLock, samples, ctrlTicks, cmds, crossings,
                 prevSide, seenLatest, irrEntries, pinFlips, snapshots>>
\* The telemetry line and the give of serialMutex.
SensorPrint ==
    /\ pc["Sensors"] = "print"
    /\ CanRun("Sensors")
    /\ serialOut' = <<SerialLine("ml", NoEvent, <<sens.m, sens.l>>, <<>>)>>
    /\ serialMutex' = "none"
    /\ pc' = Goto("Sensors", "check")
    /\ UNCHANGED <<eeprom, nextAddr, currentTime, lastSavedTime, ticks, resets, nlogs,
                 history, tracked, appended, order, moistureTh, lightTh, moisture, light,
                 irrigationPin, globalBrightness, wasLightLow, lastPeriodicLog, ops,
                 lastOp, lastLogged, eepromMutex, sensorMutex, sens, ctl, clkReg, prog,
                 snap, logq, ret, tsLo, timesInLock, samples, ctrlTicks, cmds, crossings,
                 prevSide, seenLatest, irrEntries, pinFlips, snapshots>>
\* The test of the logging period.
SensorCheck ==
    /\ pc["Sensors"] = "check"
    /\ CanRun("Sensors")
    /\ IF Geq32(Sub32(currentTime, lastPeriodicLog), U32(0, logSensorPeriod))
       THEN /\ logq' = [logq EXCEPT !["Sensors"] =
                           << <<MEASURE_MOISTURE, sens.m>>, <<MEASURE_LIGHT, sens.l>> >>]
            /\ ret' = [ret EXCEPT !["Sensors"] = "setlast"]
            /\ pc' = Goto("Sensors", "log_take")
            /\ sens' = sens
       ELSE /\ pc' = Goto("Sensors", "store1")
            /\ sens' = NoSample
            /\ logq' = logq
            /\ ret' = ret
    /\ UNCHANGED <<eeprom, nextAddr, currentTime, lastSavedTime, serialOut, ticks, resets,
                 nlogs, history, tracked, appended, order, moistureTh, lightTh, moisture,
                 light, irrigationPin, globalBrightness, wasLightLow, lastPeriodicLog, ops,
                 lastOp, lastLogged, eepromMutex, sensorMutex, serialMutex, ctl, clkReg,
                 prog, snap, tsLo, timesInLock, samples, ctrlTicks, cmds, crossings,
                 prevSide, seenLatest, irrEntries, pinFlips, snapshots>>
\* lastPeriodicLog = currentTime, then vTaskDelay.
SensorSetLast ==
    /\ pc["Sensors"] = "setlast"
    /\ CanRun("Sensors")
    /\ lastPeriodicLog' = currentTime
    /\ sens' = NoSample
    /\ pc' = Goto("Sensors", "store1")
    /\ UNCHANGED <<eeprom, nextAddr, currentTime, lastSavedTime, serialOut, ticks, resets,
                 nlogs, history, tracked, appended, order, moistureTh, lightTh, moisture,
                 light, irrigationPin, globalBrightness, wasLightLow, ops, lastOp,
                 lastLogged, eepromMutex, sensorMutex, serialMutex, ctl, clkReg, prog,
                 snap, logq, ret, tsLo, timesInLock, samples, ctrlTicks, cmds, crossings,
                 prevSide, seenLatest, irrEntries, pinFlips, snapshots>>
\* logEvent in a task of priority 1: the take of eepromMutex and the read of
\* the low half of currentTime (a 32-bit read is not atomic on the AVR).
LogTake(t) ==
    /\ pc[t] = "log_take"
    /\ CanRun(t)
    /\ eepromMutex = "none"
    /\ eepromMutex' = t
    /\ tsLo' = currentTime.lo
    /\ timesInLock' = {currentTime}
    /\ pc' = Goto(t, "log_put")
    /\ UNCHANGED <<eeprom, nextAddr, currentTime, lastSavedTime, serialOut, ticks, resets,
                 nlogs, history, tracked, appended, order, moistureTh, lightTh, moisture,
                 light, irrigationPin, globalBrightness, wasLightLow, lastPeriodicLog, ops,
                 lastOp, lastLogged, sensorMutex, serialMutex, sens, ctl, clkReg, prog,
                 snap, logq, ret, samples, ctrlTicks, cmds, crossings, prevSide,
                 seenLatest, irrEntries, pinFlips, snapshots>>
\* logEvent: the read of the high half, EEPROM.put, the cursor and the give.
LogPut(t) ==
    /\ pc[t] = "log_put"
    /\ CanRun(t)
    /\ \E log \in {logEvent(LogState(eeprom, nextAddr), U32(currentTime.hi, tsLo),
                            Head(logq[t])[1], Head(logq[t])[2])} :
           /\ eeprom' = log.mem
           /\ nextAddr' = log.addr
           /\ order' = KeepValid(Touch(order, SlotOf(nextAddr)), log.mem)
    /\ eepromMutex' = "none"
    /\ tsLo' = 0
    /\ timesInLock' = {}
    /\ irrEntries' = Count(irrEntries, Head(logq[t])[1] = AUTO_IRRIGATION)
    /\ ctl' = IF t = "AutoCtrl" /\ Head(logq[t])[1] = AUTO_IRRIGATION
              THEN [ctl EXCEPT !.irr = Append(@, Head(logq[t])[2])] ELSE ctl
    /\ logq' = [logq EXCEPT ![t] = Tail(@)]
    /\ pc' = Goto(t, IF Tail(logq[t]) = <<>> THEN ret[t] ELSE "log_take")
    /\ UNCHANGED <<currentTime, lastSavedTime, serialOut, ticks, resets, nlogs, history,
                 tracked, appended, moistureTh, lightTh, moisture, light, irrigationPin,
                 globalBrightness, wasLightLow, lastPeriodicLog, ops, lastOp, lastLogged,
                 sensorMutex, serialMutex, sens, clkReg, prog, snap, ret, samples,
                 ctrlTicks, cmds, crossings, prevSide, seenLatest, pinFlips, snapshots>>
\* autoControlTask: the take of sensorMutex and localMoisture = moisture.
CtrlCopy1 ==
    /\ pc["AutoCtrl"] = "copy1"
    /\ CanRun("AutoCtrl")
    /\ ctrlTicks < MaxCtrlTicks
    /\ sensorMutex = "none"
    /\ ctrlTicks' = ctrlTicks + 1
    /\ sensorMutex' = "AutoCtrl"
    /\ ctl' = [CtlIdle EXCEPT !.m = moisture]
    /\ seenLatest' = TRUE
    /\ pc' = Goto("AutoCtrl", "copy2")
    /\ UNCHANGED <<eeprom, nextAddr, currentTime, lastSavedTime, serialOut, ticks, resets,
                 nlogs, history, tracked, appended, order, moistureTh, lightTh, moisture,
                 light, irrigationPin, globalBrightness, wasLightLow, lastPeriodicLog, ops,
                 lastOp, lastLogged, eepromMutex, serialMutex, sens, clkReg, prog, snap,
                 logq, ret, tsLo, timesInLock, samples, cmds, crossings, prevSide,
                 irrEntries, pinFlips, snapshots>>
\* localLight = light and the give of sensorMutex.
CtrlCopy2 ==
    /\ pc["AutoCtrl"] = "copy2"
    /\ CanRun("AutoCtrl")
    /\ ctl' = [ctl EXCEPT !.l = light]
    /\ sensorMutex' = "none"
    /\ pc' = Goto("AutoCtrl", "cmp1")
    /\ UNCHANGED <<eeprom, nextAddr, currentTime, lastSavedTime, serialOut, ticks, resets,
                 nlogs, history, tracked, appended, order, moistureTh, lightTh, moisture,
                 light, irrigationPin, globalBrightness, wasLightLow, lastPeriodicLog, ops,
                 lastOp, lastLogged, eepromMutex, serialMutex, sens, clkReg, prog, snap,
                 logq, ret, tsLo, timesInLock, samples, ctrlTicks, cmds, crossings,
                 prevSide, seenLatest, irrEntries, pinFlips, snapshots>>
\* digitalRead and the first comparison, which reads moistureTh.
CtrlCmp1 ==
    /\ pc["AutoCtrl"] = "cmp1"
    /\ CanRun("AutoCtrl")
    /\ ctl' = [ctl EXCEPT !.isOn = irrigationPin, !.th1 = moistureTh]
    /\ IF IrrigationBranch(ctl.m, irrigationPin, moistureTh, moistureTh) = "on"
       THEN /\ irrigationPin' = IrrigationPinAfter("on", irrigationPin)
            /\ logq' = [logq EXCEPT !["AutoCtrl"] = IrrigationEvents("on")]
            /\ ret' = [ret EXCEPT !["AutoCtrl"] = "light"]
            /\ pc' = Goto("AutoCtrl", "log_take")
       ELSE /\ pc' = Goto("AutoCtrl", "cmp2")
            /\ irrigationPin' = irrigationPin
            /\ logq' = logq
            /\ ret' = ret
    /\ pinFlips' = Count(pinFlips, irrigationPin' # irrigationPin)
    /\ UNCHANGED <<eeprom, nextAddr, currentTime, lastSavedTime, serialOut, ticks, resets,
                 nlogs, history, tracked, appended, order, moistureTh, lightTh, moisture,
                 light, globalBrightness, wasLightLow, lastPeriodicLog, ops, lastOp,
                 lastLogged, eepromMutex, sensorMutex, serialMutex, sens, clkReg, prog,
                 snap, tsLo, timesInLock, samples, ctrlTicks, cmds, crossings, prevSide,
                 seenLatest, irrEntries, snapshots>>
\* The second comparison, which reads moistureTh again.
CtrlCmp2 ==
    /\ pc["AutoCtrl"] = "cmp2"
    /\ CanRun("AutoCtrl")
    /\ ctl' = [ctl EXCEPT !.th2 = moistureTh]
    /\ \E branch \in {IrrigationBranch(ctl.m, ctl.isOn, ctl.th1, moistureTh)} :
           /\ irrigationPin' = IrrigationPinAfter(branch, irrigationPin)
           /\ IF IrrigationEvents(branch) = <<>>
              THEN /\ pc' = Goto("AutoCtrl", "light")
                   /\ logq' = logq
                   /\ ret' = ret
              ELSE /\ logq' = [logq EXCEPT !["AutoCtrl"] = IrrigationEvents(branch)]
                   /\ ret' = [ret EXCEPT !["AutoCtrl"] = "light"]
                   /\ pc' = Goto("AutoCtrl", "log_take")
    /\ pinFlips' = Count(pinFlips, irrigationPin' # irrigationPin)
    /\ UNCHANGED <<eeprom, nextAddr, currentTime, lastSavedTime, serialOut, ticks, resets,
                 nlogs, history, tracked, appended, order, moistureTh, lightTh, moisture,
                 light, globalBrightness, wasLightLow, lastPeriodicLog, ops, lastOp,
                 lastLogged, eepromMutex, sensorMutex, serialMutex, sens, clkReg, prog,
                 snap, tsLo, timesInLock, samples, ctrlTicks, cmds, crossings, prevSide,
                 seenLatest, irrEntries, snapshots>>
\* The light adjustment and the auto-light edge, then vTaskDelay.
CtrlLight ==
    /\ pc["AutoCtrl"] = "light"
    /\ CanRun("AutoCtrl")
    /\ \E q \in (IF lightTh = 0 THEN DivByZeroQuotients ELSE {0}) :
           globalBrightness' = setLightPins(ToInt16(MapWith(ctl.l, 0, lightTh, 255, 0, q)))
    /\ wasLightLow' = (ctl.l < lightTh)
    /\ ctl' = CtlIdle
    /\ IF LightEvents(ctl.l, lightTh, wasLightLow) = <<>>
       THEN /\ pc' = Goto("AutoCtrl", "copy1")
            /\ logq' = logq
            /\ ret' = ret
       ELSE /\ logq' = [logq EXCEPT !["AutoCtrl"] = LightEvents(ctl.l, lightTh, wasLightLow)]
            /\ ret' = [ret EXCEPT !["AutoCtrl"] = "copy1"]
            /\ pc' = Goto("AutoCtrl", "log_take")
    /\ UNCHANGED <<eeprom, nextAddr, currentTime, lastSavedTime, serialOut, ticks, resets,
                 nlogs, history, tracked, appended, order, moistureTh, lightTh, moisture,
                 light, irrigationPin, lastPeriodicLog, ops, lastOp, lastLogged,
                 eepromMutex, sensorMutex, serialMutex, sens, clkReg, prog, snap, tsLo,
                 timesInLock, samples, ctrlTicks, cmds, crossings, prevSide, seenLatest,
                 irrEntries, pinFlips, snapshots>>
\* updateTimeTask: currentTime++ reads currentTime into registers.
ClockIncRead ==
    /\ pc["Time"] = "inc_read"
    /\ CanRun("Time")
    /\ ticks < MaxTicks
    /\ ticks' = ticks + 1
    /\ clkReg' = currentTime
    /\ pc' = Goto("Time", "inc_write")
    /\ UNCHANGED <<eeprom, nextAddr, currentTime, lastSavedTime, serialOut, resets, nlogs,
                 history, tracked, appended, order, moistureTh, lightTh, moisture, light,
                 irrigationPin, globalBrightness, wasLightLow, lastPeriodicLog, ops,
                 lastOp, lastLogged, eepromMutex, sensorMutex, serialMutex, sens, ctl,
                 prog, snap, logq, ret, tsLo, timesInLock, samples, ctrlTicks, cmds,
                 crossings, prevSide, seenLatest, irrEntries, pinFlips, snapshots>>
\* currentTime++ stores the incremented registers, then vTaskDelayUntil.
ClockIncWrite ==
    /\ pc["Time"] = "inc_write"
    /\ CanRun("Time")
    /\ currentTime' = Inc32(clkReg)
    /\ timesInLock' = TimesAfter(currentTime')
    /\ clkReg' = ZERO32
    /\ pc' = Goto("Time", "save")
    /\ UNCHANGED <<eeprom, nextAddr, lastSavedTime, serialOut, ticks, resets, nlogs, history,
                 tracked, appended, order, moistureTh, lightTh, moisture, light,
                 irrigationPin, globalBrightness, wasLightLow, lastPeriodicLog, ops,
                 lastOp, lastLogged, eepromMutex, sensorMutex, serialMutex, sens, ctl,
                 prog, snap, logq, ret, tsLo, samples, ctrlTicks, cmds, crossings,
                 prevSide, seenLatest, irrEntries, pinFlips, snapshots>>
\* updateTimeTask: the test of timeSaveInterval and, when the save is due, the
\* take of eepromMutex.
ClockSaveTake ==
    /\ pc["Time"] = "save"
    /\ CanRun("Time")
    /\ IF Geq32(Sub32(currentTime, lastSavedTime), timeSaveInterval)
       THEN /\ eepromMutex = "none"
            /\ eepromMutex' = "Time"
            /\ pc' = Goto("Time", "save_put")
       ELSE /\ eepromMutex' = eepromMutex
            /\ pc' = Goto("Time", "inc_read")
    /\ UNCHANGED <<eeprom, nextAddr, currentTime, lastSavedTime, serialOut, ticks, resets,
                 nlogs, history, tracked, appended, order, moistureTh, lightTh, moisture,
                 light, irrigationPin, globalBrightness, wasLightLow, lastPeriodicLog, ops,
                 lastOp, lastLogged, sensorMutex, serialMutex, sens, ctl, clkReg, prog,
                 snap, logq, ret, tsLo, timesInLock, samples, ctrlTicks, cmds, crossings,
                 prevSide, seenLatest, irrEntries, pinFlips, snapshots>>
\* updateTimeTask keeping eepromMutex after EEPROM.put.
ClockSaveNoGive ==
    /\ pc["Time"] = "save_put"
    /\ CanRun("Time")
    /\ eeprom' = ApplyWrites(eeprom,
                     PutWrites(EEPROM_ADDR_CURRENT_TIME, Bytes32(currentTime)))
    /\ lastSavedTime' = currentTime
    /\ pc' = Goto("Time", "inc_read")
    /\ UNCHANGED <<nextAddr, currentTime, serialOut, ticks, resets, nlogs, history, tracked,
                 appended, order, moistureTh, lightTh, moisture, light, irrigationPin,
                 globalBrightness, wasLightLow, lastPeriodicLog, ops, lastOp, lastLogged,
                 eepromMutex, sensorMutex, serialMutex, sens, ctl, clkReg, prog, snap,
                 logq, ret, tsLo, timesInLock, samples, ctrlTicks, cmds, crossings,
                 prevSide, seenLatest, irrEntries, pinFlips, snapshots>>
\* EEPROM.put of currentTime, the give of eepromMutex and lastSavedTime =
\* currentTime.
ClockSave ==
    /\ pc["Time"] = "save_put"
    /\ CanRun("Time")
    /\ eeprom' = ApplyWrites(eeprom,
                     PutWrites(EEPROM_ADDR_CURRENT_TIME, Bytes32(currentTime)))
    /\ eepromMutex' = "none"
    /\ lastSavedTime' = currentTime
    /\ pc' = Goto("Time", "inc_read")
    /\ UNCHANGED <<nextAddr, currentTime, serialOut, ticks, resets, nlogs, history, tracked,
                 appended, order, moistureTh, lightTh, moisture, light, irrigationPin,
                 globalBrightness, wasLightLow, lastPeriodicLog, ops, lastOp, lastLogged,
                 sensorMutex, serialMutex, sens, ctl, clkReg, prog, snap, logq, ret, tsLo,
                 timesInLock, samples, ctrlTicks, cmds, crossings, prevSide, seenLatest,
                 irrEntries, pinFlips, snapshots>>
\* serialComTask wakes with a completed line and calls handleCommand.
SerialReceive(cmd) ==
    /\ pc["Serial"] = "idle"
    /\ cmds < MaxCmds
    /\ cmds' = cmds + 1
    /\ prog' = CommandSegments(cmd)
    /\ pc' = Goto("Serial", "run")
    /\ UNCHANGED <<eeprom, nextAddr, currentTime, lastSavedTime, serialOut, ticks, resets,
                 nlogs, history, tracked, appended, order, moistureTh, lightTh, moisture,
                 light, irrigationPin, globalBrightness, wasLightLow, lastPeriodicLog, ops,
                 lastOp, lastLogged, eepromMutex, sensorMutex, serialMutex, sens, ctl,
                 clkReg, snap, logq, ret, tsLo, timesInLock, samples, ctrlTicks, crossings,
                 prevSide, seenLatest, irrEntries, pinFlips, snapshots>>
\* xSemaphoreTake(..., portMAX_DELAY) by serialComTask: granted when the
\* mutex the next segment of handleCommand needs is free.
SerialTake ==
    /\ SerialNeeds # "none"
    /\ MutexOwner(SerialNeeds) = "none"
    /\ eepromMutex' = IF SerialNeeds = "eeprom" THEN "Serial" ELSE eepromMutex
    /\ serialMutex' = IF SerialNeeds = "serial" THEN "Serial" ELSE serialMutex
    /\ sensorMutex' = IF SerialNeeds = "sensor" THEN "Serial" ELSE sensorMutex
    /\ UNCHANGED <<eeprom, nextAddr, currentTime, lastSavedTime, serialOut, ticks, resets,
                 nlogs, history, tracked, appended, order, moistureTh, lightTh, moisture,
                 light, irrigationPin, globalBrightness, wasLightLow, lastPeriodicLog, ops,
                 lastOp, lastLogged, pc, sens, ctl, clkReg, prog, snap, logq, ret, tsLo,
                 timesInLock, samples, ctrlTicks, cmds, crossings, prevSide, seenLatest,
                 irrEntries, pinFlips, snapshots>>
\* handleCommand, time command: currentTime = atol(cmd + 1).
SerialSetTime ==
    /\ SerialRuns("settime")
    /\ currentTime' = Atol(Tail(Head(prog)[2]))
    /\ timesInLock' = TimesAfter(currentTime')
    /\ prog' = Tail(prog)
    /\ pc' = SerialPcAfter
    /\ UNCHANGED <<eeprom, nextAddr, lastSavedTime, serialOut, ticks, resets, nlogs, history,
                 tracked, appended, order, moistureTh, lightTh, moisture, light,
                 irrigationPin, globalBrightness, wasLightLow, lastPeriodicLog, ops,
                 lastOp, lastLogged, eepromMutex, sensorMutex, serialMutex, sens, ctl,
                 clkReg, snap, logq, ret, tsLo, samples, ctrlTicks, cmds, crossings,
                 prevSide, seenLatest, irrEntries, pinFlips, snapshots>>
\* Time command: EEPROM.put of currentTime under eepromMutex.
SerialSaveTime ==
    /\ SerialRuns("savetime")
    /\ eeprom' = ApplyWrites(eeprom, PutWrites(EEPROM_ADDR_CURRENT_TIME, Bytes32(currentTime)))
    /\ prog' = Tail(prog)
    /\ pc' = SerialPcAfter
    /\ eepromMutex' = "none"
    /\ UNCHANGED <<nextAddr, currentTime, lastSavedTime, serialOut, ticks, resets, nlogs,
                 history, tracked, appended, order, moistureTh, lightTh, moisture, light,
                 irrigationPin, globalBrightness, wasLightLow, lastPeriodicLog, ops,
                 lastOp, lastLogged, sensorMutex, serialMutex, sens, ctl, clkReg, snap,
                 logq, ret, tsLo, timesInLock, samples, ctrlTicks, cmds, crossings,
                 prevSide, seenLatest, irrEntries, pinFlips, snapshots>>
\* printLogs() under serialMutex.
SerialDump ==
    /\ SerialRuns("dump")
    /\ serialOut' = printLogsLines(eeprom)
    /\ prog' = Tail(prog)
    /\ pc' = SerialPcAfter
    /\ serialMutex' = "none"
    /\ UNCHANGED <<eeprom, nextAddr, currentTime, lastSavedTime, ticks, resets, nlogs,
                 history, tracked, appended, order, moistureTh, lightTh, moisture, light,
                 irrigationPin, globalBrightness, wasLightLow, lastPeriodicLog, ops,
                 lastOp, lastLogged, eepromMutex, sensorMutex, sens, ctl, clkReg, snap,
                 logq, ret, tsLo, timesInLock, samples, ctrlTicks, cmds, crossings,
                 prevSide, seenLatest, irrEntries, pinFlips, snapshots>>
\* clearLogs() under eepromMutex.
SerialClear ==
    /\ SerialRuns("clear")
    /\ \E log \in {clearLogs(LogState(eeprom, nextAddr))} :
           /\ eeprom' = log.mem
           /\ nextAddr' = log.addr
    /\ order' = <<>>
    /\ prog' = Tail(prog)
    /\ pc' = SerialPcAfter
    /\ eepromMutex' = "none"
    /\ UNCHANGED <<currentTime, lastSavedTime, serialOut, ticks, resets, nlogs, history,
                 tracked, appended, moistureTh, lightTh, moisture, light, irrigationPin,
                 globalBrightness, wasLightLow, lastPeriodicLog, ops, lastOp, lastLogged,
                 sensorMutex, serialMutex, sens, ctl, clkReg, snap, logq, ret, tsLo,
                 timesInLock, samples, ctrlTicks, cmds, crossings, prevSide, seenLatest,
                 irrEntries, pinFlips, snapshots>>
\* logCurrentSystemState keeping sensorMutex after its copy of the readings.
SerialCopyNoGive ==
    /\ SerialRuns("copy")
    /\ snap' = [m |-> moisture, l |-> light]
    /\ prog' = Tail(prog)
    /\ pc' = SerialPcAfter
    /\ UNCHANGED <<eeprom, nextAddr, currentTime, lastSavedTime, serialOut, ticks, resets,
                 nlogs, history, tracked, appended, order, moistureTh, lightTh, moisture,
                 light, irrigationPin, globalBrightness, wasLightLow, lastPeriodicLog, ops,
                 lastOp, lastLogged, eepromMutex, sensorMutex, serialMutex, sens, ctl,
                 clkReg, logq, ret, tsLo, timesInLock, samples, ctrlTicks, cmds, crossings,
                 prevSide, seenLatest, irrEntries, pinFlips, snapshots>>
\* logCurrentSystemState: the copy of the readings under sensorMutex.
SerialCopy ==
    /\ SerialRuns("copy")
    /\ snap' = [m |-> moisture, l |-> light]
    /\ prog' = Tail(prog)
    /\ pc' = SerialPcAfter
    /\ sensorMutex' = "none"
    /\ UNCHANGED <<eeprom, nextAddr, currentTime, lastSavedTime, serialOut, ticks, resets,
                 nlogs, history, tracked, appended, order, moistureTh, lightTh, moisture,
                 light, irrigationPin, globalBrightness, wasLightLow, lastPeriodicLog, ops,
                 lastOp, lastLogged, eepromMutex, serialMutex, sens, ctl, clkReg, logq,
                 ret, tsLo, timesInLock, samples, ctrlTicks, cmds, crossings, prevSide,
                 seenLatest, irrEntries, pinFlips, snapshots>>
\* logCurrentSystemState: its k-th logEvent call, whose argument is read now.
SerialSnap ==
    /\ SerialRuns("snap")
    /\ \E ev \in {logCurrentSystemState(snap.m, snap.l, moistureTh, lightTh, irrigationPin,
                                        globalBrightness)[Head(prog)[2]]} :
           /\ \E log \in {logEvent(LogState(eeprom, nextAddr), currentTime, ev[1], ev[2])} :
                  /\ eeprom' = log.mem
                  /\ nextAddr' = log.addr
                  /\ order' = KeepValid(Touch(order, SlotOf(nextAddr)), log.mem)
           /\ irrEntries' = Count(irrEntries, ev[1] = AUTO_IRRIGATION)
           /\ snapshots' = Count(snapshots, ev[1] = AUTO_IRRIGATION)
    /\ snap' = IF Tail(prog) = <<>> THEN NoSample ELSE snap
    /\ prog' = Tail(prog)
    /\ pc' = SerialPcAfter
    /\ eepromMutex' = "none"
    /\ UNCHANGED <<currentTime, lastSavedTime, serialOut, ticks, resets, nlogs, history,
                 tracked, appended, moistureTh, lightTh, moisture, light, irrigationPin,
                 globalBrightness, wasLightLow, lastPeriodicLog, ops, lastOp, lastLogged,
                 sensorMutex, serialMutex, sens, ctl, clkReg, logq, ret, tsLo, timesInLock,
                 samples, ctrlTicks, cmds, crossings, prevSide, seenLatest, pinFlips>>
\* The X and Z responses under serialMutex.
SerialGetTh ==
    /\ SerialRuns("getth")
    /\ serialOut' = <<SerialLine(Head(prog)[2], NoEvent,
                                 <<IF Head(prog)[2] = "X" THEN moistureTh ELSE lightTh>>, <<>>)>>
    /\ prog' = Tail(prog)
    /\ pc' = SerialPcAfter
    /\ serialMutex' = "none"
    /\ UNCHANGED <<eeprom, nextAddr, currentTime, lastSavedTime, ticks, resets, nlogs,
                 history, tracked, appended, order, moistureTh, lightTh, moisture, light,
                 irrigationPin, globalBrightness, wasLightLow, lastPeriodicLog, ops,
                 lastOp, lastLogged, eepromMutex, sensorMutex, sens, ctl, clkReg, snap,
                 logq, ret, tsLo, timesInLock, samples, ctrlTicks, cmds, crossings,
                 prevSide, seenLatest, irrEntries, pinFlips, snapshots>>
\* The store of the constrained threshold.
SerialSetTh ==
    /\ SerialRuns("setth")
    /\ IF Head(prog)[2] = "L"
       THEN /\ lightTh' = Constrain(Head(prog)[3], 0, 1023)
            /\ moistureTh' = moistureTh
       ELSE /\ moistureTh' = Constrain(Head(prog)[3], 0, 1023)
            /\ lightTh' = lightTh
    /\ prog' = Tail(prog)
    /\ pc' = SerialPcAfter
    /\ UNCHANGED <<eeprom, nextAddr, currentTime, lastSavedTime, serialOut, ticks, resets,
                 nlogs, history, tracked, appended, order, moisture, light, irrigationPin,
                 globalBrightness, wasLightLow, lastPeriodicLog, ops, lastOp, lastLogged,
                 eepromMutex, sensorMutex, serialMutex, sens, ctl, clkReg, snap, logq, ret,
                 tsLo, timesInLock, samples, ctrlTicks, cmds, crossings, prevSide,
                 seenLatest, irrEntries, pinFlips, snapshots>>
\* logEvent of the threshold just stored.
SerialLogTh ==
    /\ SerialRuns("logth")
    /\ \E ev \in {IF Head(prog)[2] = "L" THEN <<LIGHT_TH, lightTh>>
                                         ELSE <<MOISTURE_TH, moistureTh>>} :
       \E log \in {logEvent(LogState(eeprom, nextAddr), currentTime, ev[1], ev[2])} :
           /\ eeprom' = log.mem
           /\ nextAddr' = log.addr
           /\ order' = KeepValid(Touch(order, SlotOf(nextAddr)), log.mem)
    /\ prog' = Tail(prog)
    /\ pc' = SerialPcAfter
    /\ eepromMutex' = "none"
    /\ UNCHANGED <<currentTime, lastSavedTime, serialOut, ticks, resets, nlogs, history,
                 tracked, appended, moistureTh, lightTh, moisture, light, irrigationPin,
                 globalBrightness, wasLightLow, lastPeriodicLog, ops, lastOp, lastLogged,
                 sensorMutex, serialMutex, sens, ctl, clkReg, snap, logq, ret, tsLo,
                 timesInLock, samples, ctrlTicks, cmds, crossings, prevSide, seenLatest,
                 irrEntries, pinFlips, snapshots>>
\* unknownCommand(cmd) under serialMutex.
SerialUnknown ==
    /\ SerialRuns("unknown")
    /\ serialOut' = <<SerialLine("U", NoEvent, <<>>, Head(prog)[2])>>
    /\ prog' = Tail(prog)
    /\ pc' = SerialPcAfter
    /\ serialMutex' = "none"
    /\ UNCHANGED <<eeprom, nextAddr, currentTime, lastSavedTime, ticks, resets, nlogs,
                 history, tracked, appended, order, moistureTh, lightTh, moisture, light,
                 irrigationPin, globalBrightness, wasLightLow, lastPeriodicLog, ops,
                 lastOp, lastLogged, eepromMutex, sensorMutex, sens, ctl, clkReg, snap,
                 logq, ret, tsLo, timesInLock, samples, ctrlTicks, cmds, crossings,
                 prevSide, seenLatest, irrEntries, pinFlips, snapshots>>

Init == LogInitWith(FALSE)
Next ==
    /\ UNCHANGED <<readerVars, ioVars, storeLength, halted>>
    /\ \/ \E s \in TaskSamples : SensorStore1(s[1], s[2])
       \/ SensorStore2
       \/ SensorPrintTake
       \/ SensorPrint
       \/ SensorCheck
       \/ SensorSetLast
       \/ \E t \in {"Sensors", "AutoCtrl"} : LogTake(t)
       \/ \E t \in {"Sensors", "AutoCtrl"} : LogPut(t)
       \/ CtrlCopy1
       \/ CtrlCopy2
       \/ CtrlCmp1
       \/ CtrlCmp2
       \/ CtrlLight
       \/ ClockIncRead
       \/ ClockIncWrite
       \/ ClockSaveTake
       \/ ClockSave
       \/ \E cmd \in TaskCmdLines : SerialReceive(cmd)
       \/ SerialTake
       \/ SerialSetTime
       \/ SerialSaveTime
       \/ SerialDump
       \/ SerialClear
       \/ SerialCopy
       \/ SerialSnap
       \/ SerialGetTh
       \/ SerialSetTh
       \/ SerialLogTh
       \/ SerialUnknown
Spec == Init /\ [][Next]_vars

(***************************************************************************)
(* Claims about the event log                                              *)
(***************************************************************************)
\* The last operation was a dump: its lines are still on the serial link.
IsDump == serialOut # <<>> /\ serialOut[1].kind = "TS,T,V"
\* The records of that dump, in the order emitted.
Dumped == [i \in 1..(Len(serialOut) - 2) |-> serialOut[i + 1].ev]
DumpWellFormed ==
    /\ Len(serialOut) >= 2
    /\ serialOut[Len(serialOut)].kind = "E"
    /\ \A i \in 2..(Len(serialOut) - 1) : serialOut[i].kind = "csv"

\* C1: after a clear and n <= NumSlots appends, a dump emits exactly the
\* appended records, in the order they were appended.
C1_DumpYieldsAppended ==
    (tracked /\ Len(appended) <= NumSlots /\ IsDump)
        => (DumpWellFormed /\ Dumped = appended)

\* C2: after a clear and NumSlots + 1 appends the first record is the one
\* overwritten: a dump holds records #2..#(NumSlots + 1) and not record #1,
\* and the cursor, having wrapped to the region start, is at the second slot.
C2_OldestOverwrittenFirst ==
    (tracked /\ Len(appended) = NumSlots + 1)
        => /\ nextAddr = SlotAddr(1 % NumSlots)
           /\ IsDump => /\ DumpWellFormed
                        /\ Dumped = <<appended[NumSlots + 1]>> \o SubSeq(appended, 2, NumSlots)

\* C3: a dump right after a clear emits no record; a dump after a clear and
\* one append emits exactly that record, which is in the first slot.
C3_ClearThenDump ==
    /\ (tracked /\ appended = <<>> /\ IsDump) => (DumpWellFormed /\ Dumped = <<>>)
    /\ (tracked /\ Len(appended) = 1)
           => /\ GetEvent(eeprom, LOG_START_ADDRESS) = appended[1]
              /\ IsDump => (DumpWellFormed /\ Dumped = appended)

\* C4: the log region is either full of records, with the cursor at the
\* oldest of them, or a prefix of records followed only by sentinel slots.
RegionFull == \A i \in 0..(NumSlots - 1) : SlotValid(eeprom, i)
RegionPrefix ==
    \E p \in 0..NumSlots : \A i \in 0..(NumSlots - 1) : SlotValid(eeprom, i) <=> i < p
C4_RingOrPrefix ==
    \/ RegionFull /\ Len(order) = NumSlots /\ nextAddr = SlotAddr(order[1])
    \/ RegionPrefix

\* C5: no record that append writes carries the timestamp 0xFFFFFFFF.
C5_NoSentinelTimestamp ==
    \A i \in 1..Len(appended) : appended[i].timestamp # SENTINEL

(***************************************************************************)
(* Claims about the command handlers                                       *)
(***************************************************************************)
\* Whether s is an optional minus sign followed by decimal digits only, and
\* the integer it writes.
IsDecimal(s) ==
    LET d == IF s # <<>> /\ s[1] = "-" THEN Tail(s) ELSE s
    IN  d # <<>> /\ \A i \in 1..Len(d) : d[i] \in DigitChars
RECURSIVE DecimalDigits(_, _)
DecimalDigits(d, acc) ==
    IF d = <<>> THEN acc ELSE DecimalDigits(Tail(d), acc * 10 + DigitVal(d[1]))
DecimalValue(s) ==
    IF s[1] = "-" THEN -DecimalDigits(Tail(s), 0) ELSE DecimalDigits(s, 0)
\* Whether the last handler run was handleCommand on a threshold-set line
\* with the given key.
LastSet(key) == lastOp[1] = "cmd" /\ Len(lastOp[2]) >= 2 /\ lastOp[2][1] = key

\* C7: after a threshold-set command M<v> or L<v> with a decimal value v,
\* the stored threshold equals clamp(v, 0, 1023) for the integer v written
\* in the line, negative and large values included.
C7_StoredThresholdIsClamp ==
    /\ (LastSet("M") /\ IsDecimal(Tail(lastOp[2])))
           => moistureTh = Constrain(DecimalValue(Tail(lastOp[2])), 0, 1023)
    /\ (LastSet("L") /\ IsDecimal(Tail(lastOp[2])))
           => lightTh = Constrain(DecimalValue(Tail(lastOp[2])), 0, 1023)

\* C8: a handled threshold-set command appends exactly one record, at the
\* cursor, of type 3 for M and 2 for L, whose value is the threshold the
\* command stored, and leaves the other threshold unchanged.
C8_SetStep(key, type, stored, other, otherAfter) ==
    (ops' = ops + 1 /\ lastOp'[1] = "cmd" /\ Len(lastOp'[2]) >= 2 /\ lastOp'[2][1] = key)
        => /\ lastLogged' = << <<type, stored>> >>
           /\ eeprom' = ApplyWrites(eeprom,
                            PutWrites(nextAddr, EventBytes(Event(currentTime, type, stored))))
           /\ nextAddr' = AdvanceAddr(nextAddr)
           /\ otherAfter = other
C8_ThresholdSetLogsOnce ==
    [][/\ C8_SetStep("M", MOISTURE_TH, moistureTh', lightTh, lightTh')
       /\ C8_SetStep("L", LIGHT_TH, lightTh', moistureTh, moistureTh')]_vars
\* M2000 was handled: 1023 is stored and one type-3 record with value 1023
\* is the newest record of the log.
C8_Witness ==
    /\ lastOp = <<"cmd", <<"M", "2", "0", "0", "0">> >>
    /\ moistureTh = 1023
    /\ lastLogged = << <<MOISTURE_TH, 1023>> >>
    /\ order # <<>>
    /\ GetEvent(eeprom, SlotAddr(order[Len(order)])) = Event(currentTime, MOISTURE_TH, 1023)

(***************************************************************************)
(* Claims about the tasks                                                  *)
(***************************************************************************)
\* C6: the timestamp of every record appended by a task is a value that
\* currentTime held while that append owned the storage lock, whatever the
\* Clock task and time-set commands do meanwhile.
C6_TimestampIsCurrentTime ==
    [][\A t \in {"Sensors", "AutoCtrl"} :
           (pc[t] = "log_put" /\ pc'[t] # "log_put")
               => GetEvent(eeprom', nextAddr).timestamp \in timesInLock]_vars

\* No controller tick and no command is in progress and the controller has
\* seen the latest sample.
Quiescent == pc["AutoCtrl"] = "copy1" /\ pc["Serial"] = "idle" /\ seenLatest
\* The auto-irrigation record the controller has set the pin for and not
\* yet appended.
InFlight ==
    IF logq["AutoCtrl"] # <<>> /\ Head(logq["AutoCtrl"])[1] = AUTO_IRRIGATION THEN 1 ELSE 0

\* C9 as stated: the number of auto-irrigation entries produced over a run
\* equals the number of times the sampled moisture readings crossed the
\* threshold, also when the tasks interleave.
C9_EntriesEqualCrossings == Quiescent => irrEntries = crossings

\* C9 as amended: the Auto Controller appends exactly one auto-irrigation
\* entry for each change it makes to the actuator, and each D snapshot
\* appends one more; nothing else produces one.
C9_EntriesFollowActuator == irrEntries + InFlight = pinFlips + snapshots
\* The controller switched the actuator on and off again and a D snapshot
\* followed: three entries for two crossings.
C9_Witness ==
    /\ Quiescent
    /\ pinFlips = 2
    /\ snapshots = 1
    /\ irrEntries = 3
    /\ crossings = 2

\* C10: at the end of the irrigation part of a controller tick that copied
\* the reading m, found the actuator at isOn and compared against t (the
\* threshold read by the comparison that can act for that isOn): the
\* actuator was switched on with one record 1, switched off with one
\* record 0, or left alone with no record, and it is on iff m > t.
C10_TickDrivesActuator ==
    pc["AutoCtrl"] = "light" =>
        LET m == ctl.m
            isOn == ctl.isOn
            t == IF ctl.isOn THEN ctl.th2 ELSE ctl.th1
        IN  /\ (m > t /\ ~isOn) => (irrigationPin /\ ctl.irr = <<1>>)
            /\ (m <= t /\ isOn) => (~irrigationPin /\ ctl.irr = <<0>>)
            /\ (~(m > t /\ ~isOn) /\ ~(m <= t /\ isOn))
                   => (irrigationPin = isOn /\ ctl.irr = <<>>)
            /\ irrigationPin <=> m > t
\* A tick that found the actuator on, copied 600 while the threshold was
\* 500 and read 700 in its second comparison, has switched it off.
C10_Witness ==
    /\ pc["AutoCtrl"] = "light"
    /\ ctl.m = 600
    /\ ctl.isOn
    /\ ctl.th1 = 500
    /\ ctl.th2 = 700
    /\ ~irrigationPin
    /\ ctl.irr = <<0>>

(***************************************************************************)
(* The light adjustment over its range (SpecLight): L commands store the   *)
(* thresholds, sampler iterations store the readings and controller ticks  *)
(* drive the brightness.                                                   *)
(***************************************************************************)
\* The decimal digits of n, as the host writes them in a line.
DigitChar(d) == CHOOSE c \in DigitChars : DigitVal(c) = d
RECURSIVE DecimalLine(_)
DecimalLine(n) == IF n < 10 THEN <<DigitChar(n)>> ELSE Append(DecimalLine(n \div 10), DigitChar(n % 10))

\* The thresholds sent and the light readings sampled in these runs; with
\* threshold 0 map() divides by zero, which the runs of SpecSeq cover.
LightThresholds == (1..16) \cup {255, 500, 1023}
RangeReadings == (0..16) \cup {129, 130, 500, 906, 907, 1022, 1023}

LightInit == LogInitWith(FALSE)
LightNext ==
    /\ UNCHANGED <<taskVars, readerVars, ioVars, storeLength, halted>>
    /\ \/ \E t \in LightThresholds : HandleCommandOp(<<"L">> \o DecimalLine(t))
       \/ \E l \in RangeReadings : ReadSensorsOp(400, l)
       \/ AutoControlOp
SpecLight == LightInit /\ [][LightNext]_vars

\* C11: after a controller tick with light threshold t and reading r, both
\* in [0, 1023], the brightness lies in [0, 255], is 255 at r = 0, is 0 at
\* r >= t, and for 0 < r <= t is not above the brightness for r - 1.
C11_BrightnessShape ==
    lastOp = <<"ctrl">> =>
        LET t == lightTh
            r == light
        IN  /\ globalBrightness \in 0..255
            /\ r = 0 => globalBrightness = 255
            /\ r >= t => globalBrightness = 0
            /\ (0 < r /\ r <= t)
                   => globalBrightness <= setLightPins(ToInt16(MapWith(r - 1, 0, t, 255, 0, 0)))

(***************************************************************************)
(* Claims about the controller's light part and the dispatch              *)
(***************************************************************************)
\* The step is one whole run of the handler named kind.
HandlerStep(kind) == ops' = ops + 1 /\ lastOp'[1] = kind
\* The records of the given type among the <<type, value>> pairs evs.
OfType(evs, type) == SelectSeq(evs, LAMBDA ev : ev[1] = type)

\* C12: is-light-low is false initially; a controller tick appends one
\* auto-light record, with the new boolean as value, exactly when the
\* boolean (reading < light threshold) differs from the one of the previous
\* tick, which wasLightLow keeps between ticks, and none otherwise; every
\* tick drives the brightness mapped from its reading.
C12_AutoLightOnEdges ==
    /\ wasLightLow = FALSE
    /\ [][IF HandlerStep("ctrl")
          THEN /\ wasLightLow' = (light < lightTh)
               /\ OfType(lastLogged', AUTO_LIGHT) =
                      IF (light < lightTh) # wasLightLow
                      THEN << <<AUTO_LIGHT, IF light < lightTh THEN 1 ELSE 0>> >>
                      ELSE <<>>
               /\ \E q \in DivByZeroQuotients :
                      globalBrightness' = Constrain(ToInt16(MapWith(light, 0, lightTh, 255, 0, q)), 0, 255)
          ELSE wasLightLow' = wasLightLow]_vars
\* A tick found the light low for the first time and appended the record
\* with value 1, which is the newest record of the log.
C12_Witness ==
    /\ lastOp = <<"ctrl">>
    /\ light = 300
    /\ lightTh = 500
    /\ wasLightLow
    /\ OfType(lastLogged, AUTO_LIGHT) = << <<AUTO_LIGHT, 1>> >>
    /\ order # <<>>
    /\ GetEvent(eeprom, SlotAddr(order[Len(order)])) = Event(currentTime, AUTO_LIGHT, 1)

\* Whether a line is a command of the protocol table: T<seconds>, G, D, X,
\* Z, M<value> or L<value>, with a decimal number where one is due.
IsProtocolCommand(cmd) ==
    \/ cmd \in {<<"G">>, <<"D">>, <<"X">>, <<"Z">>}
    \/ cmd[1] \in {"T", "M", "L"} /\ IsDecimal(Tail(cmd))

\* C13: a completed line that is not a command of the protocol table is
\* answered with the unknown-command tag followed by the line, and leaves
\* thresholds, current time, persisted clock, actuators, log and cursor
\* unchanged.
C13_UnknownLinesChangeNothing ==
    [][(HandlerStep("cmd") /\ ~IsProtocolCommand(lastOp'[2]))
           => /\ serialOut' = <<SerialLine("U", NoEvent, <<>>, lastOp'[2])>>
              /\ UNCHANGED <<moistureTh, lightTh, currentTime, eeprom, nextAddr,
                             irrigationPin, globalBrightness>>]_vars

(***************************************************************************)
(* serialComTask's line reader, byte by byte (SpecReader).  handleCommand  *)
(* runs to completion when a terminator ends a non-empty buffer.           *)
(***************************************************************************)
\* The bytes the reader runs receive: a filler, a command letter and a
\* terminator.
ReaderBytes == {"Q", "D", "\n"}
\* A reader that ends a line on the newline only.
IsNewline(c) == c = "\n"
IsTerminator(c) == c \in {"\n", "\r"}

\* A test that lets the index reach CMD_BUFFER_SIZE.
BufferHasRoomToTheEnd(buf) == Len(buf) < CMD_BUFFER_SIZE
\* buffer_index < (CMD_BUFFER_SIZE - 1): the byte fits and leaves room for
\* the terminating null.
BufferHasRoom(buf) == Len(buf) < CMD_BUFFER_SIZE - 1

\* One pass of the inner loop of serialComTask on the received byte c.
ReceiveByteOp(c) ==
    /\ nbytes < MaxBytes
    /\ nbytes' = nbytes + 1
    /\ IF IsTerminator(c)
       THEN /\ line' = <<>>
            /\ cmd_buffer' = <<>>
            /\ IF Len(cmd_buffer) > 0
               THEN HandleCommandOp(cmd_buffer)
               ELSE /\ serialOut' = <<>>
                    /\ UNCHANGED <<eeprom, nextAddr, currentTime, lastSavedTime, ticks, resets,
                                   nlogs, history, tracked, appended, order, devVars>>
       ELSE /\ line' = Append(line, c)
            /\ IF BufferHasRoom(cmd_buffer)
               THEN /\ cmd_buffer' = Append(cmd_buffer, c)
                    /\ serialOut' = <<>>
               ELSE /\ cmd_buffer' = <<>>
                    /\ serialOut' = <<Line("RCMDBufferOverflow", NoEvent)>>
            /\ UNCHANGED <<eeprom, nextAddr, currentTime, lastSavedTime, ticks, resets,
                           nlogs, history, tracked, appended, order, devVars>>

ReaderStart == LogInitWith(FALSE)
ReaderNext ==
    /\ UNCHANGED <<taskVars, ioVars, storeLength, halted>>
    /\ \E c \in ReaderBytes : ReceiveByteOp(c)
SpecReader == ReaderStart /\ [][ReaderNext]_vars

\* C14: a received line longer than the buffer holds (11 bytes) is never
\* dispatched, in whole or in part: whenever handleCommand is invoked, the
\* line that the terminator ended fitted the buffer and the handler was given
\* that whole line.
C14_NoFragmentDispatched ==
    [][HandlerStep("cmd") => /\ Len(line) <= CMD_BUFFER_SIZE - 1
                             /\ lastOp'[2] = line]_vars

(***************************************************************************)
(* Claims about malformed threshold lines                                  *)
(***************************************************************************)
\* A threshold-set line whose remainder is not a decimal number.
IsMalformedThresholdLine(cmd) ==
    /\ cmd[1] \in {"M", "L"}
    /\ Len(cmd) > 1
    /\ ~IsDecimal(Tail(cmd))
\* C15: a threshold-set line whose remainder is not a decimal number is a
\* protocol error: the handler writes an error or unknown-command response,
\* changes neither threshold and appends no record.
C15_MalformedThresholdRejected ==
    [][(HandlerStep("cmd") /\ IsMalformedThresholdLine(lastOp'[2]))
           => /\ serialOut' # <<>>
              /\ serialOut'[1].kind \in {"U", "R"}
              /\ UNCHANGED <<moistureTh, lightTh, eeprom, nextAddr>>
              /\ lastLogged' = <<>>]_vars

(***************************************************************************)
(* The handlers on a store too small for the log (SpecSmall)               *)
(***************************************************************************)
\* Store lengths from the clock slot alone up to room for one record.
SmallStoreLengths == LOG_START_ADDRESS..(LOG_START_ADDRESS + RECORD_SIZE)
SmallCmdLines == { <<"M", "3", "0", "0">>, <<"L", "7", "0", "0">>, <<"D">>, <<"G">> }

SmallInit == \E len \in SmallStoreLengths : StoreInit(len, FALSE)
SmallNext ==
    /\ UNCHANGED <<taskVars, readerVars, ioVars, storeLength, halted>>
    /\ \/ \E cmd \in SmallCmdLines : HandleCommandOp(cmd)
       \/ \E m \in MoistureReadings, l \in LightReadings : ReadSensorsOp(m, l)
       \/ AutoControlOp
SpecSmall == SmallInit /\ [][SmallNext]_vars

NoLogSpaceLines(lines) == SelectSeq(lines, LAMBDA ln : ln.kind = "RNoLogSpace")
FreeSlots(mem) == {i \in 0..(NumSlots - 1) : ~SlotValid(mem, i)}
Least(S) == CHOOSE i \in S : \A j \in S : i <= j
\* A step that runs setup(): a reset, or a power loss inside an operation.
SetupStep == resets' = resets + 1
\* C17: at startup the scan returns the address of the first slot, from the
\* region start, whose timestamp is the sentinel; when there is none it
\* returns the region start and the OverwritingLogs warning is written to
\* the serial link.
C17_RecoveryScan ==
    [][SetupStep =>
          IF FreeSlots(eeprom') # {}
          THEN /\ nextAddr' = SlotAddr(Least(FreeSlots(eeprom')))
               /\ serialOut' = <<>>
               /\ ~halted'
          ELSE /\ nextAddr' = LOG_START_ADDRESS
               /\ serialOut' = <<Line("ROverwritingLogs", NoEvent)>>
               /\ ~halted']_vars

\* setup() has just returned on a region without a sentinel slot: the
\* warning of the scan is the last thing written to the serial link.
RecoveredOnFullRegion ==
    /\ resets > 0
    /\ ~halted
    /\ serialOut = <<Line("ROverwritingLogs", NoEvent)>>
\* C18: after a reset with a full region the first append replaces the
\* record that was written earliest among those in the region.
C18_PostResetOverwritesOldest ==
    [][(RecoveredOnFullRegion /\ nlogs' = nlogs + 1) => SlotOf(nextAddr) = order[1]]_vars

\* C19: a reset between two operations, with a log that was cleared and has
\* had at most NumSlots records appended since (so it has not wrapped), loses
\* nothing: the recovered cursor is the cursor before the reset, which is the
\* slot after the last appended record, the store is as it was, and a dump
\* emits the appended records as it did before.
C19_ResetLosesNothing ==
    [][(SetupStep /\ tracked /\ Len(appended) <= NumSlots)
           => /\ ~halted'
              /\ nextAddr' = nextAddr
              /\ nextAddr' = SlotAddr(Len(appended) % NumSlots)
              /\ eeprom' = eeprom
              /\ DumpFrom(eeprom', 0) = appended]_vars

(***************************************************************************)
(* The handlers on a store with room for the snapshot (SpecSnapshot)       *)
(***************************************************************************)
\* Store lengths whose region holds six records exactly, six records and
\* four spare bytes, and seven records.
SnapshotStoreLengths ==
    { LOG_START_ADDRESS + 6 * RECORD_SIZE, LOG_START_ADDRESS + 6 * RECORD_SIZE + 4,
      LOG_START_ADDRESS + 7 * RECORD_SIZE }
SnapshotCmdLines ==
    { <<"D">>, <<"G">>, <<"M", "3", "0", "0">>, <<"L", "7", "0", "0">>, <<"T", "-", "1">> }

SnapshotInit == \E len \in SnapshotStoreLengths : StoreInit(len, FALSE)
SnapshotNext ==
    /\ UNCHANGED <<taskVars, readerVars, ioVars, storeLength, halted>>
    /\ \/ \E cmd \in SnapshotCmdLines : HandleCommandOp(cmd)
       \/ \E m \in MoistureReadings, l \in LightReadings : ReadSensorsOp(m, l)
       \/ AutoControlOp
       \/ ClockTickOp
SpecSnapshot == SnapshotInit /\ [][SnapshotNext]_vars

\* The six records of a snapshot of the current state, at the current time.
SnapshotRecords ==
    << Event(currentTime, MEASURE_MOISTURE, moisture),
       Event(currentTime, MEASURE_LIGHT, light),
       Event(currentTime, MOISTURE_TH, moistureTh),
       Event(currentTime, LIGHT_TH, lightTh),
       Event(currentTime, AUTO_IRRIGATION, IF irrigationPin THEN 1 ELSE 0),
       Event(currentTime, AUTO_LIGHT, globalBrightness) >>
\* C20: when a D command has been handled on a log of at least six slots,
\* the records the log holds are exactly the six snapshot records, in the
\* order moisture reading, light reading, moisture threshold, light
\* threshold, irrigation state, light state, each with the current value.
C20_SnapshotAfterClear ==
    [][(HandlerStep("cmd") /\ lastOp'[2] = <<"D">> /\ NumSlots >= 6)
           => DumpFrom(eeprom', 0) = SnapshotRecords']_vars

(***************************************************************************)
(* The clock over time-set commands, ticks, clears and resets (SpecStartup) *)
(***************************************************************************)
\* Time-set lines around the compiled-in epoch 1704067200 and the ends of
\* the range of uint32_t.
StartupTimeLines ==
    { <<"T">>, <<"T", "0">>, <<"T", "-", "1">>, <<"T", "-", "2">>,
      <<"T">> \o DecimalLine(17040) \o DecimalLine(67199),
      <<"T">> \o DecimalLine(17040) \o DecimalLine(67200),
      <<"T">> \o DecimalLine(17040) \o DecimalLine(67201),
      <<"T">> \o DecimalLine(18000) \o DecimalLine(10000) }
StartupInit == LogInitWith(FALSE)
StartupNext ==
    /\ UNCHANGED <<taskVars, readerVars, ioVars, storeLength>>
    /\ \/ \E cmd \in StartupTimeLines : TimeCommandOp(cmd)
       \/ ClockTickOp
       \/ ClearLogsOp
       \/ ResetOp
SpecStartup == StartupInit /\ [][StartupNext]_vars

(***************************************************************************)
(* Claims about the clock                                                  *)
(***************************************************************************)
Less32(a, b) == a.hi < b.hi \/ (a.hi = b.hi /\ a.lo < b.lo)
\* A clock value that is neither the erase pattern nor before the epoch.
Plausible(t) == t # SENTINEL /\ ~Less32(t, InitialTime)
\* C21: at startup the clock becomes the value of the clock slot if and only
\* if that value is plausible, else it is the compiled-in epoch; so right
\* after startup the clock is at least the epoch and not 0xFFFFFFFF.
C21_StartupClockPlausible ==
    [][SetupStep =>
          LET stored == FromBytes32(<<eeprom'[0], eeprom'[1], eeprom'[2], eeprom'[3]>>)
          IN  /\ currentTime' = IF Plausible(stored) THEN stored ELSE InitialTime
              /\ Plausible(currentTime')]_vars
\* A startup that adopted a stored value later than the epoch.
C21_Witness ==
    /\ resets > 0
    /\ ticks = 0
    /\ currentTime = Get32(eeprom, EEPROM_ADDR_CURRENT_TIME)
    /\ currentTime = U32(26002, 129)

\* C22: a time-set command either leaves the clock and the clock slot as
\* they were, or sets both to a plausible value that is not before the
\* clock it replaces.
C22_TimeSetOnlyPlausible ==
    [][(HandlerStep("cmd") /\ lastOp'[2][1] = "T")
           => \/ /\ currentTime' = currentTime
                 /\ Get32(eeprom', EEPROM_ADDR_CURRENT_TIME) = Get32(eeprom, EEPROM_ADDR_CURRENT_TIME)
              \/ /\ Plausible(currentTime')
                 /\ ~Less32(currentTime', currentTime)
                 /\ Get32(eeprom', EEPROM_ADDR_CURRENT_TIME) = currentTime']_vars

\* The value in the clock slot.
StoredTime == Get32(eeprom, EEPROM_ADDR_CURRENT_TIME)
\* C23: once updateTimeTask has saved the clock for the first time, the
\* value in the clock slot is never ahead of the clock and never more than
\* timeSaveInterval (900 s) behind it.
C23_StoredClockWithinInterval ==
    lastSavedTime # ZERO32
        => /\ ~Less32(currentTime, StoredTime)
           /\ ~Less32(timeSaveInterval, Sub32(currentTime, StoredTime))



(***************************************************************************)
(* The three mutexes: who holds which, and which one a task is asking for. *)
(***************************************************************************)
Tasks == Tasks1 \cup {"Serial"}
Mutexes == {"eeprom", "sensor", "serial"}
HeldBy(t) == {m \in Mutexes : MutexOwner(m) = t}
\* The mutex the next statement of a task takes (xSemaphoreTake), if any.
Requested(t) ==
    IF t = "Serial" THEN (IF MutexOwner(SerialNeeds) = "Serial" THEN "none" ELSE SerialNeeds)
    ELSE IF pc[t] \in {"store1", "copy1"} THEN "sensor"
    ELSE IF pc[t] = "print_take" THEN "serial"
    ELSE IF pc[t] = "log_take" THEN "eeprom"
    ELSE IF pc[t] = "save" /\ Geq32(Sub32(currentTime, lastSavedTime), timeSaveInterval)
         THEN "eeprom"
    ELSE "none"

\* C26: no task ever holds more than one of the three mutexes, and a task
\* that holds one (sensorMutex in particular) is not at a take of another:
\* the locks are never nested.
C26_LocksNeverNested ==
    \A t \in Tasks :
        /\ Cardinality(HeldBy(t)) <= 1
        /\ HeldBy(t) # {} => Requested(t) = "none"
\* The three mutexes held at once, by three different tasks.
C26_Witness ==
    /\ serialMutex = "Sensors"
    /\ sensorMutex = "AutoCtrl"
    /\ eepromMutex = "Time"

\* A step of task t: its position moved (serialComTask also moves by taking a
\* mutex or by finishing a segment of its command).
Acts(t) ==
    \/ pc'[t] # pc[t]
    \/ t = "Serial" /\ (prog' # prog \/ HeldBy("Serial")' # HeldBy("Serial"))
\* The steps that read the EEPROM: printLogs.
ReadsEeprom == pc["Serial"] = "run" /\ Head(prog)[1] = "dump" /\ Acts("Serial")

\* C30: a task that holds sensorMutex does no serial write and no EEPROM
\* read or write: its step under the lock leaves the serial line, the
\* store and the log cursor as they were and is not a step of the dump.
C30_SensorLockSectionsDoNoIO ==
    [][\A t \in Tasks :
          (sensorMutex = t /\ Acts(t))
              => /\ serialOut' = serialOut
                 /\ eeprom' = eeprom
                 /\ nextAddr' = nextAddr
                 /\ ~ReadsEeprom]_vars
\* serialComTask copied the readings for the snapshot (D command) and has
\* given sensorMutex back, while readSensorsTask was inside its telemetry
\* line.
C30_Witness ==
    /\ pc["Serial"] = "run"
    /\ Head(prog) = <<"snap", 1>>
    /\ sensorMutex = "none"
    /\ serialMutex = "Sensors"

\* The shared device state: the readings, the thresholds, the actuator state
\* and the clock.
SharedState == <<moisture, light, moistureTh, lightTh, irrigationPin, globalBrightness,
                 currentTime>>
\* Task t holds a mutex before or after the step.
LockedStep(t) == Acts(t) /\ (HeldBy(t) # {} \/ HeldBy(t)' # {})

\* C28: shared device state (sensor readings, thresholds, actuator state with
\* the brightness, current time) is only accessed under its lock: every step
\* that writes one of them is a step of a task that holds a mutex.
C28_SharedStateUnderLock ==
    [][SharedState' # SharedState => \E t \in Tasks : LockedStep(t)]_vars

(***************************************************************************)
(* The tasks at the grain of a Serial.print call and of an EEPROM byte     *)
(* write (SpecIO): the telemetry line is written in two parts, EEPROM.put  *)
(* of a record can be preempted after any of its bytes, printLogs reads    *)
(* and prints one record at a time, and serialComTask reports a line that  *)
(* overflows cmd_buffer.                                                   *)
(***************************************************************************)
\* A write to the serial link by task t.
Wrote(t) ==
    /\ mixed' = (mixed \/ (pc["Sensors"] = "print2" /\ t # "Sensors"))
    /\ unguarded' = (unguarded \/ serialMutex # t)
    /\ intruded' = (intruded \/ (dumpAt >= 0 /\ t # "Serial"))
\* The link after a task wrote ln: a line that lands inside the telemetry
\* line readSensorsTask has not finished follows its first part.
Emit(ln) == IF pc["Sensors"] = "print2" THEN Append(serialOut, ln) ELSE <<ln>>

\* readSensorsTask: Serial.print(MOISTURE_SYMBOL); Serial.print(localMoisture).
SensorPrintHead ==
    /\ pc["Sensors"] = "print"
    /\ CanRun("Sensors")
    /\ serialOut' = <<SerialLine("m", NoEvent, <<sens.m>>, <<>>)>>
    /\ Wrote("Sensors")
    /\ pc' = Goto("Sensors", "print2")
    /\ UNCHANGED <<eeprom, nextAddr, currentTime, lastSavedTime, ticks, resets, nlogs,
                 history, tracked, appended, order, moistureTh, lightTh, moisture, light,
                 irrigationPin, globalBrightness, wasLightLow, lastPeriodicLog, ops,
                 lastOp, lastLogged, eepromMutex, sensorMutex, serialMutex, sens, ctl,
                 clkReg, prog, snap, logq, ret, tsLo, timesInLock, samples, ctrlTicks,
                 cmds, crossings, prevSide, seenLatest, irrEntries, pinFlips, snapshots,
                 putRest, dumpAt>>
\* Serial.print(LIGHT_SYMBOL); Serial.println(localLight) and the give of
\* serialMutex.
SensorPrintTail ==
    /\ pc["Sensors"] = "print2"
    /\ CanRun("Sensors")
    /\ serialOut' = Append(serialOut, SerialLine("l", NoEvent, <<sens.l>>, <<>>))
    /\ Wrote("Sensors")
    /\ serialMutex' = "none"
    /\ pc' = Goto("Sensors", "check")
    /\ UNCHANGED <<eeprom, nextAddr, currentTime, lastSavedTime, ticks, resets, nlogs,
                 history, tracked, appended, order, moistureTh, lightTh, moisture, light,
                 irrigationPin, globalBrightness, wasLightLow, lastPeriodicLog, ops,
                 lastOp, lastLogged, eepromMutex, sensorMutex, sens, ctl, clkReg, prog,
                 snap, logq, ret, tsLo, timesInLock, samples, ctrlTicks, cmds, crossings,
                 prevSide, seenLatest, irrEntries, pinFlips, snapshots, putRest, dumpAt>>
\* logEvent: the read of the high half of currentTime and the first n byte
\* writes of EEPROM.put.
LogPutPart(t, n) ==
    /\ pc[t] = "log_put"
    /\ CanRun(t)
    /\ \E ws \in {PutWrites(nextAddr, EventBytes(Event(U32(currentTime.hi, tsLo),
                                                      Head(logq[t])[1], Head(logq[t])[2])))} :
           /\ eeprom' = ApplyWrites(eeprom, SubSeq(ws, 1, n))
           /\ putRest' = SubSeq(ws, n + 1, Len(ws))
    /\ pc' = Goto(t, "log_rest")
    /\ UNCHANGED <<nextAddr, currentTime, lastSavedTime, serialOut, ticks, resets, nlogs,
                 history, tracked, appended, order, moistureTh, lightTh, moisture, light,
                 irrigationPin, globalBrightness, wasLightLow, lastPeriodicLog, ops,
                 lastOp, lastLogged, eepromMutex, sensorMutex, serialMutex, sens, ctl,
                 clkReg, prog, snap, logq, ret, tsLo, timesInLock, samples, ctrlTicks,
                 cmds, crossings, prevSide, seenLatest, irrEntries, pinFlips, snapshots,
                 dumpAt, mixed, unguarded, intruded>>
\* logEvent: the other byte writes of EEPROM.put, the cursor and the give.
LogPutRest(t) ==
    /\ pc[t] = "log_rest"
    /\ CanRun(t)
    /\ eeprom' = ApplyWrites(eeprom, putRest)
    /\ putRest' = <<>>
    /\ nextAddr' = AdvanceAddr(nextAddr)
    /\ order' = KeepValid(Touch(order, SlotOf(nextAddr)), eeprom')
    /\ eepromMutex' = "none"
    /\ tsLo' = 0
    /\ timesInLock' = {}
    /\ irrEntries' = Count(irrEntries, Head(logq[t])[1] = AUTO_IRRIGATION)
    /\ ctl' = IF t = "AutoCtrl" /\ Head(logq[t])[1] = AUTO_IRRIGATION
              THEN [ctl EXCEPT !.irr = Append(@, Head(logq[t])[2])] ELSE ctl
    /\ logq' = [logq EXCEPT ![t] = Tail(@)]
    /\ pc' = Goto(t, IF Tail(logq[t]) = <<>> THEN ret[t] ELSE "log_take")
    /\ UNCHANGED <<currentTime, lastSavedTime, serialOut, ticks, resets, nlogs, history,
                 tracked, appended, moistureTh, lightTh, moisture, light, irrigationPin,
                 globalBrightness, wasLightLow, lastPeriodicLog, ops, lastOp, lastLogged,
                 sensorMutex, serialMutex, sens, clkReg, prog, snap, ret, samples,
                 ctrlTicks, cmds, crossings, prevSide, seenLatest, pinFlips, snapshots,
                 dumpAt, mixed, unguarded, intruded>>
\* printLogs: the loop ends at the end of the usable region or at a slot
\* whose timestamp is the sentinel.
DumpStops(mem, offset) ==
    \/ offset >= (logDataAreaLength \div RECORD_SIZE) * RECORD_SIZE
    \/ GetEvent(mem, LOG_START_ADDRESS + offset).timestamp = SENTINEL
\* printLogs: Serial.println(F(LOG_HEADER)) under serialMutex.
SerialDumpHead ==
    /\ SerialRuns("dump")
    /\ dumpAt = -1
    /\ serialOut' = Emit(Line("TS,T,V", NoEvent))
    /\ Wrote("Serial")
    /\ dumpAt' = 0
    /\ UNCHANGED <<eeprom, nextAddr, currentTime, lastSavedTime, ticks, resets, nlogs,
                 history, tracked, appended, order, moistureTh, lightTh, moisture, light,
                 irrigationPin, globalBrightness, wasLightLow, lastPeriodicLog, ops,
                 lastOp, lastLogged, pc, eepromMutex, sensorMutex, serialMutex, sens, ctl,
                 clkReg, prog, snap, logq, ret, tsLo, timesInLock, samples, ctrlTicks,
                 cmds, crossings, prevSide, seenLatest, irrEntries, pinFlips, snapshots,
                 putRest>>
\* printLogs: EEPROM.get of the record at the offset and its CSV line.
SerialDumpRecord ==
    /\ SerialRuns("dump")
    /\ dumpAt >= 0
    /\ ~DumpStops(eeprom, dumpAt)
    /\ serialOut' = Append(serialOut, Line("csv", GetEvent(eeprom, LOG_START_ADDRESS + dumpAt)))
    /\ Wrote("Serial")
    /\ dumpAt' = dumpAt + RECORD_SIZE
    /\ UNCHANGED <<eeprom, nextAddr, currentTime, lastSavedTime, ticks, resets, nlogs,
                 history, tracked, appended, order, moistureTh, lightTh, moisture, light,
                 irrigationPin, globalBrightness, wasLightLow, lastPeriodicLog, ops,
                 lastOp, lastLogged, pc, eepromMutex, sensorMutex, serialMutex, sens, ctl,
                 clkReg, prog, snap, logq, ret, tsLo, timesInLock, samples, ctrlTicks,
                 cmds, crossings, prevSide, seenLatest, irrEntries, pinFlips, snapshots,
                 putRest>>
\* printLogs: Serial.println(F(LOG_END)) and the give of serialMutex.
SerialDumpEnd ==
    /\ SerialRuns("dump")
    /\ dumpAt >= 0
    /\ DumpStops(eeprom, dumpAt)
    /\ serialOut' = Append(serialOut, Line("E", NoEvent))
    /\ Wrote("Serial")
    /\ dumpAt' = -1
    /\ serialMutex' = "none"
    /\ prog' = Tail(prog)
    /\ pc' = SerialPcAfter
    /\ UNCHANGED <<eeprom, nextAddr, currentTime, lastSavedTime, ticks, resets, nlogs,
                 history, tracked, appended, order, moistureTh, lightTh, moisture, light,
                 irrigationPin, globalBrightness, wasLightLow, lastPeriodicLog, ops,
                 lastOp, lastLogged, eepromMutex, sensorMutex, sens, ctl, clkReg, snap,
                 logq, ret, tsLo, timesInLock, samples, ctrlTicks, cmds, crossings,
                 prevSide, seenLatest, irrEntries, pinFlips, snapshots, putRest>>
\* serialComTask: a byte that does not fit cmd_buffer; the error line is
\* written with no take of serialMutex.
SerialOverflow ==
    /\ pc["Serial"] = "idle"
    /\ cmds < MaxCmds
    /\ cmds' = cmds + 1
    /\ serialOut' = Emit(Line("RCMDBufferOverflow", NoEvent))
    /\ Wrote("Serial")
    /\ UNCHANGED <<eeprom, nextAddr, currentTime, lastSavedTime, ticks, resets, nlogs,
                 history, tracked, appended, order, moistureTh, lightTh, moisture, light,
                 irrigationPin, globalBrightness, wasLightLow, lastPeriodicLog, ops,
                 lastOp, lastLogged, pc, eepromMutex, sensorMutex, serialMutex, sens, ctl,
                 clkReg, prog, snap, logq, ret, tsLo, timesInLock, samples, ctrlTicks,
                 crossings, prevSide, seenLatest, irrEntries, pinFlips, snapshots, putRest,
                 dumpAt>>

\* The readings and the lines of this specification.
IoSamples == {<<600, 700>>}
IoCmdLines == {<<"G">>, <<"D">>, <<"X">>, <<"Q", "Q", "Q">>}
IoStart == LogInitWith(FALSE)
IoNext ==
    /\ UNCHANGED <<readerVars, storeLength, halted>>
    /\ \/ /\ UNCHANGED ioVars
          /\ \/ \E s \in IoSamples : SensorStore1(s[1], s[2])
             \/ SensorStore2
             \/ SensorPrintTake
             \/ SensorCheck
             \/ SensorSetLast
             \/ \E t \in {"Sensors", "AutoCtrl"} : LogTake(t)
             \/ CtrlCopy1
             \/ CtrlCopy2
             \/ CtrlCmp1
             \/ CtrlCmp2
             \/ CtrlLight
             \/ ClockIncRead
             \/ ClockIncWrite
             \/ ClockSaveTake
             \/ ClockSave
             \/ \E cmd \in IoCmdLines : SerialReceive(cmd)
             \/ SerialTake
             \/ SerialClear
             \/ SerialCopy
             \/ SerialSnap
       \/ /\ UNCHANGED <<putRest, dumpAt>>
          /\ Wrote("Serial")
          /\ \/ SerialGetTh
             \/ SerialUnknown
       \/ SensorPrintHead
       \/ SensorPrintTail
       \/ \E t \in {"Sensors", "AutoCtrl"} : \E n \in 1..(RECORD_SIZE - 1) : LogPutPart(t, n)
       \/ \E t \in {"Sensors", "AutoCtrl"} : LogPutRest(t)
       \/ SerialDumpHead
       \/ SerialDumpRecord
       \/ SerialDumpEnd
       \/ SerialOverflow
SpecIO == IoStart /\ [][IoNext]_vars

\* C24: every dump is contiguous on the link: no other task is inside a line
\* of its own while the dump is between its header and its end marker, no
\* other task writes in between, the lines after the header are CSV lines
\* and the finished dump is the header, CSV lines and the end marker.
C24_DumpIsContiguous ==
    /\ ~intruded
    /\ dumpAt >= 0 =>
          /\ pc["Sensors"] # "print2"
          /\ IsDump
          /\ \A i \in 2..Len(serialOut) : serialOut[i].kind = "csv"
    /\ (IsDump /\ dumpAt = -1) => DumpWellFormed
\* A finished dump with a record, requested while readSensorsTask held
\* serialMutex for its telemetry line or waited for it.
C24_Witness ==
    /\ IsDump
    /\ dumpAt = -1
    /\ Len(serialOut) >= 3
    /\ pc["Sensors"] = "print_take"

\* C25: the log operations exclude one another: while a dump is between its
\* header and its end marker no append or clear is in progress (eepromMutex
\* is free or held by the dumping task, no EEPROM.put is half done), so the
\* records cannot change under the dump.
C25_LogOperationsExclusive ==
    dumpAt >= 0 => eepromMutex \in {"none", "Serial"} /\ putRest = <<>>

\* C29: every write to the serial link is made by a task that holds
\* serialMutex, and no write lands inside another task's unfinished line.
C29_SerialWritesUnderLock == ~unguarded /\ ~mixed

(***************************************************************************)
(* The tasks under the scheduler's fairness (SpecFair).  FreeRTOS runs     *)
(* the ready task of the highest priority and time-slices the ready tasks  *)
(* of equal priority, so a task that stays ready is run: weak fairness on  *)
(* the steps of each task.  The arrival of a line is not under fairness.   *)
(***************************************************************************)
\* The iterations readSensorsTask and autoControlTask start in a fair run.
FairRounds == 1
FairCmdLines == {<<"G">>, <<"D">>}
FairFrame == UNCHANGED <<readerVars, ioVars, storeLength, halted>>
SensorsStep ==
    \/ samples < FairRounds /\ \E s \in IoSamples : SensorStore1(s[1], s[2])
    \/ SensorStore2
    \/ SensorPrintTake
    \/ SensorPrint
    \/ SensorCheck
    \/ SensorSetLast
    \/ LogTake("Sensors")
    \/ LogPut("Sensors")
AutoCtrlStep ==
    \/ ctrlTicks < FairRounds /\ CtrlCopy1
    \/ CtrlCopy2
    \/ CtrlCmp1
    \/ CtrlCmp2
    \/ CtrlLight
    \/ LogTake("AutoCtrl")
    \/ LogPut("AutoCtrl")
TimeStep ==
    \/ ClockIncRead
    \/ ClockIncWrite
    \/ ClockSaveTake
    \/ ClockSave
SerialStep ==
    \/ SerialTake
    \/ SerialDump
    \/ SerialClear
    \/ SerialCopy
    \/ SerialSnap
FairInit == LogInitWith(FALSE)
FairNext ==
    /\ FairFrame
    /\ \/ SensorsStep
       \/ AutoCtrlStep
       \/ TimeStep
       \/ \E cmd \in FairCmdLines : SerialReceive(cmd)
       \/ SerialStep
SpecFair ==
    /\ FairInit
    /\ [][FairNext]_vars
    /\ WF_vars(FairFrame /\ SensorsStep)
    /\ WF_vars(FairFrame /\ AutoCtrlStep)
    /\ WF_vars(FairFrame /\ TimeStep)
    /\ WF_vars(FairFrame /\ SerialStep)

\* Task t is at a take of a mutex (a task at the head of its loop only while
\* it has an iteration left to start).
Blocked(t) ==
    /\ Requested(t) # "none"
    /\ pc[t] = "store1" => samples < FairRounds
    /\ pc[t] = "copy1" => ctrlTicks < FairRounds
\* Task t is suspended on its timer (vTaskDelay, vTaskDelayUntil).
Suspended(t) ==
    \/ t = "Sensors" /\ pc[t] = "store1"
    \/ t = "AutoCtrl" /\ pc[t] = "copy1"
    \/ t = "Time" /\ pc[t] = "save"
    \/ t = "Serial" /\ pc[t] = "idle"

\* C27: the locking cannot deadlock: under fair scheduling every task that
\* is at a take of a mutex eventually holds a mutex (the one it asked for:
\* it holds none while it waits and its next step is that take), and no
\* task holds a mutex when it suspends on its timer.
C27_LocksGrantedAndReleased ==
    /\ [](\A t \in Tasks : Suspended(t) => HeldBy(t) = {})
    /\ \A t \in Tasks : Blocked(t) ~> (HeldBy(t) # {})
\* autoControlTask waits for eepromMutex, which updateTimeTask holds, while
\* readSensorsTask holds serialMutex.
C27_Witness ==
    /\ Blocked("AutoCtrl")
    /\ Requested("AutoCtrl") = "eeprom"
    /\ eepromMutex = "Time"
    /\ serialMutex = "Sensors"

(***************************************************************************)
(* The log and the clock slot on stores of several capacities, each with   *)
(* at least one record slot (SpecCapacity): appends, clears, time sets,    *)
(* clock ticks and resets, each run to completion.                         *)
(***************************************************************************)
\* EEPROM.length() of the stores: 1, 2 and 3 slots, with and without bytes
\* left over after the last whole slot.
CapacityLengths == {11, 13, 18, 20, 25, 30}
CapacityInputs == {<<MEASURE_MOISTURE, 600>>}
CapacityTimeLines == {<<"T">> \o DecimalLine(17040) \o DecimalLine(67300)}
CapacityInit == \E len \in CapacityLengths : StoreInit(len, FALSE)
CapacityNext ==
    /\ UNCHANGED <<taskVars, readerVars, ioVars, storeLength>>
    /\ \/ \E in \in CapacityInputs : LogEventOp(in[1], in[2])
       \/ ClearLogsOp
       \/ \E cmd \in CapacityTimeLines : TimeCommandOp(cmd)
       \/ ClockTickOp
       \/ ResetOp
SpecCapacity == CapacityInit /\ [][CapacityNext]_vars

\* C31: the cursor is always the address of a whole record slot of the log
\* region: LOG_START_ADDRESS + i * RECORD_SIZE with 0 <= i < NumSlots, on
\* every store with at least one slot, after any appends, clears and resets.
C31_CursorOnSlot == \E i \in 0..(NumSlots - 1) : nextAddr = SlotAddr(i)
\* A store of two slots and two spare bytes: two appends filled it, a reset
\* recovered the cursor and a third append moved it to the second slot.
C31_Witness ==
    /\ storeLength = 20
    /\ resets = 1
    /\ nlogs = 3
    /\ nextAddr = SlotAddr(1)

\* C32: every storage write stays in its area, on every capacity: a byte of
\* the clock slot (0..3) changes only when the clock is persisted, and then
\* the slot holds currentTime; any other byte that changes is a byte of a
\* whole record slot of the log region.
C32_WritesStayInArea ==
    [][\A a \in 0..(storeLength - 1) :
          eeprom'[a] # eeprom[a] =>
              IF a < LOG_START_ADDRESS
              THEN Get32(eeprom', EEPROM_ADDR_CURRENT_TIME) = currentTime'
              ELSE a < LOG_START_ADDRESS + usableLogLength]_vars

(***************************************************************************)
(* The line reader on lines ended by either terminator (SpecLines): the    *)
(* bytes are G, newline and carriage return.                               *)
(***************************************************************************)
LineBytes == {"G", "\n", "\r"}
LinesInit == LogInitWith(FALSE)
LinesNext ==
    /\ UNCHANGED <<taskVars, ioVars, storeLength, halted>>
    /\ \E c \in LineBytes : ReceiveByteOp(c)
SpecLines == LinesInit /\ [][LinesNext]_vars

\* A pass of the reader, on a terminator; a call of handleCommand.
ReaderStep == nbytes' = nbytes + 1
TerminatorStep == ReaderStep /\ line' = <<>>
Dispatch == HandlerStep("cmd")
HasTerminator(bytes) == \E i \in 1..Len(bytes) : bytes[i] \in {"\n", "\r"}

\* C33 as stated: handleCommand is called exactly once per received
\* non-empty line (on the terminator that ends a line of at least one
\* byte) with the bytes buffered since the previous reset, the buffer is
\* then reset, and no other pass of the reader calls it.
C33_DispatchOncePerLine ==
    [][ReaderStep =>
          /\ Dispatch <=> (TerminatorStep /\ line # <<>>)
          /\ Dispatch => lastOp'[2] = cmd_buffer /\ cmd_buffer' = <<>>]_vars
\* C33, amended: handleCommand is called exactly on a terminator received
\* with a non-empty buffer, with the bytes buffered since the previous reset
\* (none of them a terminator), and the buffer is then reset; a terminator
\* received with an empty buffer and a byte that is no terminator call
\* nothing; so a line of at most CMD_BUFFER_SIZE - 1 bytes is dispatched
\* once, in whole, while a line of exactly CMD_BUFFER_SIZE bytes is not
\* dispatched at all.
C33_DispatchOnTerminatorWithBytes ==
    [][ReaderStep =>
          /\ Dispatch <=> (TerminatorStep /\ cmd_buffer # <<>>)
          /\ Dispatch => /\ lastOp'[2] = cmd_buffer
                         /\ cmd_buffer' = <<>>
                         /\ ~HasTerminator(cmd_buffer)
          /\ (TerminatorStep /\ line # <<>> /\ Len(line) <= CMD_BUFFER_SIZE - 1)
                 => Dispatch /\ lastOp'[2] = line
          /\ (TerminatorStep /\ Len(line) = CMD_BUFFER_SIZE) => ~Dispatch]_vars
\* Two lines were dispatched, the second after the empty line between the
\* carriage return and the newline of a pair.
C33_Witness ==
    /\ ops = 2
    /\ nbytes = 5
    /\ lastOp = <<"cmd", <<"G", "G">> >>
    /\ cmd_buffer = <<>>

\* C34: buffer_index (the number of buffered bytes) stays in
\* 0..CMD_BUFFER_SIZE - 1 for every input, so each byte store and the
\* terminating null written at cmd_buffer[buffer_index] are inside the
\* buffer.
C34_IndexInsideBuffer == Len(cmd_buffer) \in 0..(CMD_BUFFER_SIZE - 1)
\* A line filled the buffer, its next byte reset the index and the byte
\* after that is buffered at index 0.
C34_Witness ==
    /\ Len(line) = CMD_BUFFER_SIZE + 1
    /\ Len(cmd_buffer) = 1

\* The pairs a reader may see: the zero-initialised globals and the pairs
\* of one sampling.
WholePairs == {<<0, 0>>} \cup TaskSamples

\* C35: the (moisture, light) pair that a controller tick or the snapshot
\* of the D command copied under sensorMutex is the pair of one single
\* update of readSensorsTask (or the initial pair), never the moisture of
\* one sampling with the light of another.
C35_PairsNotTorn ==
    /\ pc["AutoCtrl"] # "copy2" => <<ctl.m, ctl.l>> \in WholePairs
    /\ <<snap.m, snap.l>> \in WholePairs
\* The controller copied the pair of the second sampling on its second tick,
\* after the snapshot of a D command had copied the pair of the first.
C35_Witness ==
    /\ pc["AutoCtrl"] = "cmp1"
    /\ samples = 2
    /\ <<ctl.m, ctl.l>> = <<600, 700>>
    /\ ctrlTicks = 2
    /\ snap = [m |-> 400, l |-> 300]

\* C36: setup() takes no mutex it has not created yet: its call of
\* findNextEEPROMAddress, made before the mutexes exist, never reaches the
\* take of serialMutex for the OverwritingLogs warning, and setup() does not
\* hang on it.
C36_MutexCreatedBeforeTake ==
    [][SetupStep => ~findNextEEPROMAddress(eeprom').warn /\ ~halted']_vars

\* C37: the controller never evaluates map(reading, 0, lightTh, 255, 0) with
\* lightTh = 0: whatever L commands were received, the divisor of the
\* mapping is not zero when a controller tick runs.
C37_MapDivisorNotZero == [][HandlerStep("ctrl") => lightTh # 0]_vars

(***************************************************************************)
(* The sampler's logging period (SpecPeriod): samplings, clock ticks and   *)
(* time commands that move the clock 43, 44, 299 and 300 seconds past its  *)
(* initial value.                                                          *)
(***************************************************************************)
PeriodTimeLines ==
    { <<"T">> \o DecimalLine(17040) \o DecimalLine(67243),
      <<"T">> \o DecimalLine(17040) \o DecimalLine(67244),
      <<"T">> \o DecimalLine(17040) \o DecimalLine(67499),
      <<"T">> \o DecimalLine(17040) \o DecimalLine(67500) }
PeriodInit == LogInitWith(FALSE)
PeriodNext ==
    /\ UNCHANGED <<taskVars, readerVars, ioVars, storeLength, halted>>
    /\ \/ \E cmd \in PeriodTimeLines : HandleCommandOp(cmd)
       \/ \E m \in MoistureReadings, l \in LightReadings : ReadSensorsOp(m, l)
       \/ ClockTickOp
SpecPeriod == PeriodInit /\ [][PeriodNext]_vars

\* C38: the sampler appends its periodic pair at most once per 300 seconds
\* of currentTime: when a sampling appends the pair and an earlier pair
\* exists, currentTime is at least 300 seconds past the timestamp of that
\* earlier pair (lastPeriodicLog).
C38_PeriodicPairsFiveMinutesApart ==
    [][(HandlerStep("sensors") /\ lastLogged' # <<>> /\ lastPeriodicLog # ZERO32)
           => Geq32(Sub32(currentTime, lastPeriodicLog), U32(0, 5 * 60))]_vars

\* The records in the log, in the order they were written, and those of a
\* type among them.
LogInWriteOrder == [i \in 1..Len(order) |-> GetEvent(eeprom, SlotAddr(order[i]))]
RecordsOfType(type) == SelectSeq(LogInWriteOrder, LAMBDA e : e.eventType = type)
ValuesAlternate(recs) == \A i \in 1..(Len(recs) - 1) : recs[i].value # recs[i + 1].value
AutoLightValuesBoolean ==
    \A i \in 1..Len(RecordsOfType(AUTO_LIGHT)) : RecordsOfType(AUTO_LIGHT)[i].value \in {0, 1}

\* C39: the state-change records agree with the state machines that write
\* them: every AUTO_LIGHT record has value 0 or 1, and the values of the
\* AUTO_IRRIGATION records in the log, in write order, alternate.
C39_StateRecordsConsistent ==
    /\ AutoLightValuesBoolean
    /\ ValuesAlternate(RecordsOfType(AUTO_IRRIGATION))

\* The step of updateTimeTask that stores the incremented clock.
ClockStoreStep == pc["Time"] = "inc_write" /\ pc'["Time"] = "save"

\* C40: a time-set is never lost to updateTimeTask: the store that
\* completes currentTime++ leaves the clock one second past the value it
\* holds at that moment (n, or n plus the ticks since, once T<n> was
\* handled), never a value derived from the time before the command.
C40_TimeSetNotLost == [][ClockStoreStep => currentTime' = Inc32(currentTime)]_vars
====
